---- MODULE Spec2Model ----
(***************************************************************************)
(* The proof-of-stake state machine of namada (proof_of_stake/src/lib.rs): *)
(* genesis, bonds, unbonds, withdrawals, validator sets, slashing and the  *)
(* epoch transition, as operators over one storage record.                 *)
(***************************************************************************)
EXTENDS Integers, Sequences, FiniteSets, TLC

\* ---------------------------------------------------------------- PosParams
pipeline_len == 2
unbonding_len == 3
max_validator_slots == 2
cubic_slashing_window_length == 1
tm_votes_per_token == 500

\* Decimal values are fixed-point integers scaled by DecOne.
DecOne == 1000
duplicate_vote_min_slash_rate == 50
light_client_attack_min_slash_rate == 100

\* ------------------------------------------------------------------- bounds
MaxEpoch == 5
MaxTx == 2
MaxEvidence == 3
MaxAmount == 2

\* ---------------------------------------------------------------- universe
Validators == {"v1", "v2", "v3"}
Delegators == {"d1"}
ADDRESS == "PoS"
SLASH_POOL_ADDRESS == "SlashPool"
Accounts == Validators \cup Delegators \cup {ADDRESS, SLASH_POOL_ADDRESS}
Keys == {"k1", "k2", "k3", "k4"}
SlashTypes == {"DuplicateVote", "LightClientAttack"}
Amounts == 1..MaxAmount
LastEpoch == MaxEpoch + pipeline_len + unbonding_len + 1
Epochs == 0..LastEpoch

NoPos == -1
NoEpoch == -1
NoBalance == -1
NoAmount == -1
NoAddress == "none"
NoState == "None"

BondIds == {<<v, v>> : v \in Validators} \cup (Delegators \X Validators)

VARIABLES storage, epoch, last, ntx
vars == <<storage, epoch, last, ntx>>

\* ------------------------------------------------------------ small helpers
MaxOf(S) == CHOOSE x \in S : \A y \in S : y <= x
MinOf(S) == CHOOSE x \in S : \A y \in S : x <= y
Min2(a, b) == IF a <= b THEN a ELSE b
Max2(a, b) == IF a >= b THEN a ELSE b

\* F applied to the value v: an intermediate result that the rest of a
\* function reads more than once is computed once and bound to F's parameter.
Let(v, F(_)) == F(v)

RECURSIVE SumUpTo(_, _)
SumUpTo(f, e) == IF e < 0 THEN 0 ELSE f[e] + SumUpTo(f, e - 1)

RECURSIVE SumSeq(_)
SumSeq(q) == IF q = <<>> THEN 0 ELSE Head(q) + SumSeq(Tail(q))

\* token::Amount::from_change / Amount::change: the i128 <-> u64 casts.  Every
\* change the model converts is non-negative (see StakeNonNegative), where the
\* cast is the identity.
from_change(c) == c

\* Amount::checked_sub(..).unwrap_or_default()
checked_sub_or_default(a, b) == IF a >= b THEN a - b ELSE 0

\* ---------------------------------------------------------- Decimal (scaled)
\* Division and multiplication of scaled decimals, rounding half-even to the
\* last digit kept.
RoundHalfEven(num, den) ==
    LET q == num \div den
        r == num % den
    IN  IF 2 * r > den \/ (2 * r = den /\ q % 2 = 1) THEN q + 1 ELSE q
DecDiv(a, b) == RoundHalfEven(a * DecOne, b)
DecMul(x, y) == RoundHalfEven(x * y, DecOne)
\* decimal_mult_amount: the product truncated to whole tokens
decimal_mult_amount(rate, amount) == (rate * amount) \div DecOne
get_slash_rate(type) ==
    IF type = "DuplicateVote" THEN duplicate_vote_min_slash_rate
    ELSE light_client_attack_min_slash_rate

\* ------------------------------------------------------- epoched primitives
\* Epoched (plain): the value at the greatest stored epoch <= e.
EpochedGet(f, e) ==
    LET S == {x \in Epochs : x <= e /\ f[x] # NoState}
    IN  IF S = {} THEN NoState ELSE f[MaxOf(S)]
\* EpochedDelta: the sum of the stored deltas up to e.
get_sum(f, e) == SumUpTo(f, Min2(e, LastEpoch))
\* EpochedDelta over a sparse map (the bonds): deltas stored at DOMAIN f.
RECURSIVE SumDom(_, _)
SumDom(f, D) ==
    IF D = {} THEN 0
    ELSE LET x == CHOOSE y \in D : TRUE IN f[x] + SumDom(f, D \ {x})
bond_get_sum(f, e) == SumDom(f, {x \in DOMAIN f : x <= e})
bond_get_delta_val(f, e) == IF e \in DOMAIN f THEN f[e] ELSE 0
\* A map with key k set to v (inserting k when it is not stored yet).
MapSet(f, k, v) == [x \in (DOMAIN f) \cup {k} |-> IF x = k THEN v ELSE f[x]]

validator_state_get(s, v, e) == EpochedGet(s.state[v], e)
validator_consensus_key_get(s, v, e) == EpochedGet(s.consensus_key[v], e)
validator_state_set(s, v, value, current_epoch, offset) ==
    [s EXCEPT !.state[v][current_epoch + offset] = value]

\* ------------------------------------------------------------ storage reads
read_validator_stake(s, v, e) == from_change(get_sum(s.deltas[v], e))
read_total_stake(s, e) == from_change(get_sum(s.total_deltas, e))
is_validator(s, a, e) ==
    a \in Validators /\ validator_state_get(s, a, e) # NoState
read_validator_set_position(s, v, e) == s.positions[e][v]
get_num_consensus_validators(s, e) == Cardinality(s.consensus[e])

update_validator_deltas(s, v, delta, current_epoch, offset) ==
    [s EXCEPT !.deltas[v][current_epoch + offset] = @ + delta]
update_total_deltas_late(s, delta, current_epoch, offset) ==
    [s EXCEPT !.total_deltas[current_epoch + offset + 1] = @ + delta]
update_total_deltas(s, delta, current_epoch, offset) ==
    [s EXCEPT !.total_deltas[current_epoch + offset] = @ + delta]

\* ------------------------------------------------- validator-set primitives
\* A validator set at one epoch is a map (stake, position) -> address, kept as
\* a set of entries with at most one entry per (stake, position).
Entry(stake, pos, addr) == [stake |-> stake, pos |-> pos, addr |-> addr]
Bucket(set, stake) == {x \in set : x.stake = stake}
SetInsert(set, stake, pos, addr) ==
    {x \in set : ~(x.stake = stake /\ x.pos = pos)} \cup {Entry(stake, pos, addr)}
SetRemove(set, stake, pos) == {x \in set : ~(x.stake = stake /\ x.pos = pos)}
SetGet(set, stake, pos) ==
    LET S == {x \in set : x.stake = stake /\ x.pos = pos}
    IN  IF S = {} THEN NoAddress ELSE (CHOOSE x \in S : TRUE).addr

find_first_position(bucket) ==
    IF bucket = {} THEN NoPos ELSE MinOf({x.pos : x \in bucket})
find_last_position(bucket) ==
    IF bucket = {} THEN NoPos ELSE MaxOf({x.pos : x \in bucket})
find_next_position(bucket) ==
    IF bucket = {} THEN 0 ELSE MaxOf({x.pos : x \in bucket}) + 1
get_min_consensus_validator_amount(set) ==
    IF set = {} THEN 0 ELSE MinOf({x.stake : x \in set})
get_max_below_capacity_validator_amount(set) ==
    IF set = {} THEN NoAmount ELSE MaxOf({x.stake : x \in set})

\* insert_validator_into_set on the consensus (which = "c") or the
\* below-capacity (which = "b") set of an epoch.
insert_validator_into_set(s, which, e, stake, address) ==
    LET set == IF which = "c" THEN s.consensus[e] ELSE s.below_cap[e]
        next_position == find_next_position(Bucket(set, stake))
        s1 == IF which = "c"
              THEN [s EXCEPT !.consensus[e] = SetInsert(@, stake, next_position, address)]
              ELSE [s EXCEPT !.below_cap[e] = SetInsert(@, stake, next_position, address)]
    IN  [s1 EXCEPT !.positions[e][address] = next_position]

\* ------------------------------------------------------ operation results
Ok(s) == [st |-> s, err |-> "Ok"]
Fail(s, e) == [st |-> s, err |-> e]

\* -------------------------------------- insert_validator_into_validator_set
\* insert_validator_into_validator_set taking the slot on equal stake too.
insert_validator_into_validator_set_on_tie(s, address, stake, current_epoch, offset) ==
    LET target_epoch == current_epoch + offset
        consensus_set == s.consensus[target_epoch]
        num_consensus_validators == get_num_consensus_validators(s, target_epoch)
    IN  IF num_consensus_validators < max_validator_slots
        THEN validator_state_set(
                 insert_validator_into_set(s, "c", target_epoch, stake, address),
                 address, "Consensus", current_epoch, offset)
        ELSE LET min_consensus_amount ==
                     get_min_consensus_validator_amount(consensus_set)
             IN  IF stake >= min_consensus_amount
                 THEN LET last_min_consensus_position ==
                              find_last_position(Bucket(consensus_set, min_consensus_amount))
                          removed == SetGet(consensus_set, min_consensus_amount,
                                            last_min_consensus_position)
                          s1 == [s EXCEPT !.consensus[target_epoch] =
                                     SetRemove(@, min_consensus_amount,
                                               last_min_consensus_position)]
                          s2 == insert_validator_into_set(s1, "b", target_epoch,
                                                          min_consensus_amount, removed)
                          s3 == validator_state_set(s2, removed, "BelowCapacity",
                                                    current_epoch, offset)
                          s4 == insert_validator_into_set(s3, "c", target_epoch,
                                                          stake, address)
                      IN  validator_state_set(s4, address, "Consensus",
                                              current_epoch, offset)
                 ELSE validator_state_set(
                          insert_validator_into_set(s, "b", target_epoch, stake, address),
                          address, "BelowCapacity", current_epoch, offset)
insert_validator_into_validator_set(s, address, stake, current_epoch, offset) ==
    LET target_epoch == current_epoch + offset
        consensus_set == s.consensus[target_epoch]
        num_consensus_validators == get_num_consensus_validators(s, target_epoch)
    IN  IF num_consensus_validators < max_validator_slots
        THEN validator_state_set(
                 insert_validator_into_set(s, "c", target_epoch, stake, address),
                 address, "Consensus", current_epoch, offset)
        ELSE LET min_consensus_amount ==
                     get_min_consensus_validator_amount(consensus_set)
             IN  IF stake > min_consensus_amount
                 THEN LET last_min_consensus_position ==
                              find_last_position(Bucket(consensus_set, min_consensus_amount))
                          removed == SetGet(consensus_set, min_consensus_amount,
                                            last_min_consensus_position)
                          s1 == [s EXCEPT !.consensus[target_epoch] =
                                     SetRemove(@, min_consensus_amount,
                                               last_min_consensus_position)]
                          s2 == insert_validator_into_set(s1, "b", target_epoch,
                                                          min_consensus_amount, removed)
                          s3 == validator_state_set(s2, removed, "BelowCapacity",
                                                    current_epoch, offset)
                          s4 == insert_validator_into_set(s3, "c", target_epoch,
                                                          stake, address)
                      IN  validator_state_set(s4, address, "Consensus",
                                              current_epoch, offset)
                 ELSE validator_state_set(
                          insert_validator_into_set(s, "b", target_epoch, stake, address),
                          address, "BelowCapacity", current_epoch, offset)

\* ------------------------------------------------------ update_validator_set
\* debug is TRUE for a build with debug assertions, where a failed
\* debug_assert! aborts the transaction.
update_validator_set(s, validator, token_change, current_epoch, debug) ==
    IF token_change = 0 THEN Ok(s) ELSE
    LET e == current_epoch + pipeline_len
        tokens_pre == read_validator_stake(s, validator, e)
        tokens_post == from_change(tokens_pre + token_change)
        position == read_validator_set_position(s, validator, e)
        in_consensus == position # NoPos
                        /\ SetGet(s.consensus[e], tokens_pre, position) = validator
    IN  IF position = NoPos THEN Fail(s, "NoValidatorSetPosition")
        ELSE IF in_consensus
        THEN LET s1 == [s EXCEPT !.consensus[e] = SetRemove(@, tokens_pre, position)]
                 max_bc == get_max_below_capacity_validator_amount(s1.below_cap[e])
                 max_below_capacity_validator_amount ==
                     IF max_bc = NoAmount THEN 0 ELSE max_bc
             IN  IF tokens_post < max_below_capacity_validator_amount
                 THEN LET lowest_position ==
                              find_first_position(Bucket(s1.below_cap[e],
                                  max_below_capacity_validator_amount))
                          removed_max_below_capacity ==
                              SetGet(s1.below_cap[e],
                                     max_below_capacity_validator_amount,
                                     lowest_position)
                          s2 == [s1 EXCEPT !.below_cap[e] =
                                     SetRemove(@, max_below_capacity_validator_amount,
                                               lowest_position)]
                          s3 == insert_validator_into_set(s2, "c", e,
                                    max_below_capacity_validator_amount,
                                    removed_max_below_capacity)
                          s4 == validator_state_set(s3, removed_max_below_capacity,
                                    "Consensus", current_epoch, pipeline_len)
                          s5 == insert_validator_into_set(s4, "b", e, tokens_post,
                                                          validator)
                      IN  Ok(validator_state_set(s5, validator, "BelowCapacity",
                                                 current_epoch, pipeline_len))
                 ELSE Ok(insert_validator_into_set(s1, "c", e, tokens_post, validator))
        ELSE LET removed == SetGet(s.below_cap[e], tokens_pre, position)
                 s1 == [s EXCEPT !.below_cap[e] = SetRemove(@, tokens_pre, position)]
                 min_consensus_validator_amount ==
                     get_min_consensus_validator_amount(s1.consensus[e])
             IN  IF debug /\ removed # validator THEN Fail(s, "Panic")
                 ELSE IF tokens_post > min_consensus_validator_amount
                 THEN LET last_position_of_min_consensus_vals ==
                              find_last_position(Bucket(s1.consensus[e],
                                  min_consensus_validator_amount))
                          removed_min_consensus ==
                              SetGet(s1.consensus[e], min_consensus_validator_amount,
                                     last_position_of_min_consensus_vals)
                          s2 == [s1 EXCEPT !.consensus[e] =
                                     SetRemove(@, min_consensus_validator_amount,
                                               last_position_of_min_consensus_vals)]
                          s3 == insert_validator_into_set(s2, "b", e,
                                    min_consensus_validator_amount,
                                    removed_min_consensus)
                          s4 == validator_state_set(s3, removed_min_consensus,
                                    "BelowCapacity", current_epoch, pipeline_len)
                          s5 == insert_validator_into_set(s4, "c", e, tokens_post,
                                                          validator)
                      IN  IF last_position_of_min_consensus_vals = NoPos
                          THEN Fail(s, "Panic")
                          ELSE Ok(validator_state_set(s5, validator, "Consensus",
                                                      current_epoch, pipeline_len))
                 ELSE Ok(validator_state_set(
                          insert_validator_into_set(s1, "b", e, tokens_post, validator),
                          validator, "BelowCapacity", current_epoch, pipeline_len))

\* ----------------------------------------- copy_validator_sets_and_positions
\* The iteration orders of an in-memory hash map or hash set with the keys S:
\* any order can come out, SetToSeq(S) is the one the model runs with.
RECURSIVE SetToSeq(_)
SetToSeq(S) ==
    IF S = {} THEN <<>>
    ELSE LET x == CHOOSE y \in S : TRUE IN <<x>> \o SetToSeq(S \ {x})
Orders(S) ==
    {f \in [1..Cardinality(S) -> S] :
        \A i, j \in 1..Cardinality(S) : f[i] = f[j] => i = j}

\* The loops of the copy over consensus_in_mem / below_cap_in_mem, positions
\* and all_validators, one insert per pass, in the order todo.
RECURSIVE copy_set_entries(_, _)
copy_set_entries(target, todo) ==
    IF todo = <<>> THEN target
    ELSE copy_set_entries(
             SetInsert(target, Head(todo).stake, Head(todo).pos, Head(todo).addr),
             Tail(todo))
RECURSIVE copy_positions(_, _, _)
copy_positions(target, prev, todo) ==
    IF todo = <<>> THEN target
    ELSE copy_positions([target EXCEPT ![Head(todo)] = prev[Head(todo)]],
                        prev, Tail(todo))
RECURSIVE copy_addresses(_, _)
copy_addresses(target, todo) ==
    IF todo = <<>> THEN target
    ELSE copy_addresses(target \cup {Head(todo)}, Tail(todo))
\* iter = [consensus, below_cap, positions, addresses]: the order in which each
\* of the four in-memory collections is iterated.
copy_validator_sets_and_positions_in(s, current_epoch, target_epoch, iter) ==
    LET prev_epoch == target_epoch - 1
    IN  [s EXCEPT
          !.consensus[target_epoch] = copy_set_entries(@, iter.consensus),
          !.below_cap[target_epoch] = copy_set_entries(@, iter.below_cap),
          !.positions[target_epoch] =
              copy_positions(@, s.positions[prev_epoch], iter.positions),
          !.addresses[target_epoch] = copy_addresses(@, iter.addresses)]
\* The iteration orders the copy to target_epoch can run with.
CopyOrders(s, target_epoch) ==
    LET prev_epoch == target_epoch - 1
    IN  [consensus : Orders(s.consensus[prev_epoch]),
         below_cap : Orders(s.below_cap[prev_epoch]),
         positions : Orders({v \in Validators :
                                s.positions[prev_epoch][v] # NoPos}),
         addresses : Orders(s.addresses[prev_epoch])]

CopyMerge(prev, target) ==
    {x \in target : \A y \in prev : ~(y.stake = x.stake /\ y.pos = x.pos)} \cup prev
copy_validator_sets_and_positions(s, current_epoch, target_epoch) ==
    LET prev_epoch == target_epoch - 1
    IN  [s EXCEPT
          !.consensus[target_epoch] = CopyMerge(s.consensus[prev_epoch], @),
          !.below_cap[target_epoch] = CopyMerge(s.below_cap[prev_epoch], @),
          !.positions[target_epoch] =
              [v \in Validators |->
                  IF s.positions[prev_epoch][v] # NoPos
                  THEN s.positions[prev_epoch][v] ELSE @[v]],
          !.addresses[target_epoch] = @ \cup s.addresses[prev_epoch]]

\* --------------------------------------------------------------- init_genesis
EmptyStorage ==
    [consensus |-> [e \in Epochs |-> {}],
     below_cap |-> [e \in Epochs |-> {}],
     positions |-> [e \in Epochs |-> [v \in Validators |-> NoPos]],
     addresses |-> [e \in Epochs |-> {}],
     state |-> [v \in Validators |-> [e \in Epochs |-> NoState]],
     deltas |-> [v \in Validators |-> [e \in Epochs |-> 0]],
     total_deltas |-> [e \in Epochs |-> 0],
     bonds |-> [id \in BondIds |-> <<>>],
     unbonds |-> [id \in BondIds |-> <<>>],
     unbond_records |-> [v \in Validators |-> [e \in Epochs |-> <<>>]],
     enqueued |-> [e \in Epochs |-> [v \in Validators |-> <<>>]],
     slashes |-> [v \in Validators |-> <<>>],
     last_slash |-> [v \in Validators |-> NoEpoch],
     balance |-> [a \in Accounts |-> NoBalance],
     consensus_key |-> [v \in Validators |-> [e \in Epochs |-> NoState]],
     consensus_keys |-> {},
     raw_hash |-> [k \in Keys |-> NoAddress]]

credit_tokens(s, dest, amount) ==
    [s EXCEPT !.balance[dest] = (IF @ = NoBalance THEN 0 ELSE @) + amount]

\* genesis_validator placing the validator in the sets under no tokens.
genesis_validator_without_tokens(s, g, current_epoch) ==
    LET s1 == [s EXCEPT !.consensus_keys = @ \cup {g.consensus_key}]
        s2 == insert_validator_into_validator_set(s1, g.address, 0,
                                                  current_epoch, 0)
    IN  [s2 EXCEPT
          !.addresses[current_epoch] = @ \cup {g.address},
          !.raw_hash[g.consensus_key] = g.address,
          !.consensus_key[g.address][current_epoch] = g.consensus_key,
          !.deltas[g.address][current_epoch] = g.tokens,
          !.bonds[<<g.address, g.address>>] = MapSet(@, current_epoch, g.tokens)]
\* One pass of the loop of init_genesis over the genesis validators.
genesis_validator(s, g, current_epoch) ==
    LET s1 == [s EXCEPT !.consensus_keys = @ \cup {g.consensus_key}]
        s2 == insert_validator_into_validator_set(s1, g.address, g.tokens,
                                                  current_epoch, 0)
    IN  [s2 EXCEPT
          !.addresses[current_epoch] = @ \cup {g.address},
          !.raw_hash[g.consensus_key] = g.address,
          !.consensus_key[g.address][current_epoch] = g.consensus_key,
          !.deltas[g.address][current_epoch] = g.tokens,
          !.bonds[<<g.address, g.address>>] = MapSet(@, current_epoch, g.tokens)]

RECURSIVE genesis_loop(_, _, _)
genesis_loop(s, validators, current_epoch) ==
    IF validators = <<>> THEN s
    ELSE genesis_loop(genesis_validator(s, Head(validators), current_epoch),
                      Tail(validators), current_epoch)

RECURSIVE genesis_copy(_, _, _)
genesis_copy(s, current_epoch, n) ==
    IF n = 0 THEN s
    ELSE copy_validator_sets_and_positions(
             genesis_copy(s, current_epoch, n - 1),
             current_epoch, current_epoch + n)

init_genesis(s, validators, current_epoch) ==
    LET total_bonded == SumSeq([i \in 1..Len(validators) |-> validators[i].tokens])
        s1 == genesis_loop(s, validators, current_epoch)
        s2 == [s1 EXCEPT !.total_deltas[current_epoch] = total_bonded]
        s3 == credit_tokens(s2, ADDRESS, total_bonded)
    IN  genesis_copy(s3, current_epoch, pipeline_len)

\* ------------------------------------------------------------ transfer_tokens
\* Amount::spend panics when the balance is smaller than the amount spent.
transfer_tokens(s, amount, src, dest) ==
    IF s.balance[src] # NoBalance
    THEN IF s.balance[src] < amount
         THEN Fail(s, "Panic")
         ELSE LET src_balance == s.balance[src] - amount
                  dest_balance ==
                      (IF s.balance[dest] = NoBalance THEN 0 ELSE s.balance[dest])
                      + amount
              IN  Ok([s EXCEPT !.balance[src] = src_balance,
                               !.balance[dest] = dest_balance])
    ELSE Ok(s)

\* ---------------------------------------------------------------- bond_tokens
bond_tokens(s, source, validator, amount, current_epoch, debug) ==
    LET pipeline_epoch == current_epoch + pipeline_len
        state == validator_state_get(s, validator, pipeline_epoch)
        id == <<source, validator>>
        offset == pipeline_len
        cur_remain == bond_get_delta_val(s.bonds[id], current_epoch + offset)
        s1 == [s EXCEPT !.bonds[id] =
                   MapSet(@, current_epoch + offset, cur_remain + amount)]
        is_jailed_at_pipeline == state = "Jailed"
        \* r2: the validator set updated; r5: the tokens transferred
        Transfer(r5) == IF r5.err # "Ok" THEN Fail(s, r5.err) ELSE r5
        Deltas(r2) ==
            LET s3 == update_validator_deltas(r2.st, validator, amount,
                                              current_epoch, offset)
                s4 == update_total_deltas(s3, amount, current_epoch, offset)
            IN  IF r2.err # "Ok" THEN Fail(s, r2.err)
                ELSE Let(transfer_tokens(s4, from_change(amount), source, ADDRESS),
                         Transfer)
    IN  IF source # validator /\ is_validator(s, source, pipeline_epoch)
        THEN Fail(s, "SourceMustNotBeAValidator")
        ELSE IF state = NoState THEN Fail(s, "NotAValidator")
        ELSE IF \E e \in current_epoch..(current_epoch + pipeline_len - 1) :
                    validator_state_get(s, validator, e) = "Inactive"
        THEN Fail(s, "InactiveValidator")
        ELSE Let(IF ~is_jailed_at_pipeline
                 THEN update_validator_set(s1, validator, amount, current_epoch,
                                           debug)
                 ELSE Ok(s1),
                 Deltas)

\* --------------------------------------------------------- get_slashed_amount
\* slashes.sort_by_key(|s| s.epoch): a stable sort
RECURSIVE InsertByEpoch(_, _)
InsertByEpoch(sorted, x) ==
    IF sorted = <<>> THEN <<x>>
    ELSE IF x.epoch < Head(sorted).epoch THEN <<x>> \o sorted
    ELSE <<Head(sorted)>> \o InsertByEpoch(Tail(sorted), x)
RECURSIVE SortByEpoch(_)
SortByEpoch(q) ==
    IF q = <<>> THEN <<>>
    ELSE InsertByEpoch(SortByEpoch(SubSeq(q, 1, Len(q) - 1)), q[Len(q)])

\* slashed_amount_loop compounding a slash exactly unbonding_len after an
\* earlier one.
RECURSIVE slashed_amount_loop_compounding(_, _, _)
slashed_amount_loop_compounding(params, acc, slashes) ==
    IF slashes = <<>> THEN acc
    ELSE LET slash == Head(slashes)
             infraction_epoch == slash.epoch
             Old(c) == c.epoch + params.unbonding_len <= infraction_epoch
             Kept(c) == ~Old(c)
             removed == SelectSeq(acc.computed_amounts, Old)
             updated_amount ==
                 checked_sub_or_default(acc.updated_amount,
                     SumSeq([i \in 1..Len(removed) |-> removed[i].amount]))
             computed_amounts ==
                 Append(SelectSeq(acc.computed_amounts, Kept),
                        [amount |-> decimal_mult_amount(slash.rate, updated_amount),
                         epoch |-> infraction_epoch])
         IN  slashed_amount_loop_compounding(params,
                                 [updated_amount |-> updated_amount,
                                  computed_amounts |-> computed_amounts],
                                 Tail(slashes))
\* One pass of the loop over the sorted slashes: acc is
\* [updated_amount, computed_amounts].
RECURSIVE slashed_amount_loop(_, _, _)
slashed_amount_loop(params, acc, slashes) ==
    IF slashes = <<>> THEN acc
    ELSE LET slash == Head(slashes)
             infraction_epoch == slash.epoch
             Old(c) == c.epoch + params.unbonding_len < infraction_epoch
             Kept(c) == ~Old(c)
             removed == SelectSeq(acc.computed_amounts, Old)
             updated_amount ==
                 checked_sub_or_default(acc.updated_amount,
                     SumSeq([i \in 1..Len(removed) |-> removed[i].amount]))
             computed_amounts ==
                 Append(SelectSeq(acc.computed_amounts, Kept),
                        [amount |-> decimal_mult_amount(slash.rate, updated_amount),
                         epoch |-> infraction_epoch])
         IN  slashed_amount_loop(params,
                                 [updated_amount |-> updated_amount,
                                  computed_amounts |-> computed_amounts],
                                 Tail(slashes))

\* get_slashed_amount with the parameters it is given.
get_slashed_amount_with(params, amount, slashes) ==
    LET Final(acc) ==
            LET total_computed_amounts ==
                    SumSeq([i \in 1..Len(acc.computed_amounts) |->
                                acc.computed_amounts[i].amount])
            IN  checked_sub_or_default(acc.updated_amount, total_computed_amounts)
    IN  Let(slashed_amount_loop(params,
                                [updated_amount |-> amount,
                                 computed_amounts |-> <<>>],
                                SortByEpoch(slashes)),
            Final)
PosParams == [unbonding_len |-> unbonding_len]
get_slashed_amount(amount, slashes) ==
    get_slashed_amount_with(PosParams, amount, slashes)

\* -------------------------------------------------------------- unbond_tokens
is_validator_frozen_short(s, validator, current_epoch) ==
    IF s.last_slash[validator] # NoEpoch
    THEN current_epoch < s.last_slash[validator] + unbonding_len
    ELSE FALSE
is_validator_frozen(s, validator, current_epoch) ==
    IF s.last_slash[validator] # NoEpoch
    THEN current_epoch < s.last_slash[validator] + unbonding_len + 1
    ELSE FALSE

\* unbond_loop taking from the oldest bond first.
RECURSIVE unbond_loop_oldest_first(_, _, _, _, _)
unbond_loop_oldest_first(acc, todo, id, validator, pipeline_epoch) ==
    IF acc.remaining <= 0 \/ todo = {} THEN acc
    ELSE LET bond_epoch == MinOf(todo)
             bond_amount == from_change(acc.st.bonds[id][bond_epoch])
             to_unbond == Min2(bond_amount, acc.remaining)
             new_bond_amount == bond_amount - to_unbond
             ForBond(slash) == bond_epoch <= slash.epoch
             slashes_for_this_bond == SelectSeq(acc.st.slashes[validator], ForBond)
             record == [amount |-> to_unbond, start |-> bond_epoch]
         IN  unbond_loop_oldest_first(
                 [st |-> [acc.st EXCEPT
                            !.unbond_records[validator][pipeline_epoch] =
                                Append(@, record)],
                  remaining |-> acc.remaining - to_unbond,
                  amount_after_slashing |-> acc.amount_after_slashing
                      + get_slashed_amount(to_unbond, slashes_for_this_bond),
                  new_bond_values_map |->
                      MapSet(acc.new_bond_values_map, bond_epoch,
                             <<new_bond_amount, to_unbond>>)],
                 todo \ {bond_epoch}, id, validator, pipeline_epoch)
\* The while loop of unbond_tokens over the bonds, newest first.  todo is the
\* set of bond start epochs not visited yet; acc is [st, remaining,
\* amount_after_slashing, new_bond_values_map].
RECURSIVE unbond_loop(_, _, _, _, _)
unbond_loop(acc, todo, id, validator, pipeline_epoch) ==
    IF acc.remaining <= 0 \/ todo = {} THEN acc
    ELSE LET bond_epoch == MaxOf(todo)
             bond_amount == from_change(acc.st.bonds[id][bond_epoch])
             to_unbond == Min2(bond_amount, acc.remaining)
             new_bond_amount == bond_amount - to_unbond
             ForBond(slash) == bond_epoch <= slash.epoch
             slashes_for_this_bond == SelectSeq(acc.st.slashes[validator], ForBond)
             record == [amount |-> to_unbond, start |-> bond_epoch]
         IN  unbond_loop(
                 [st |-> [acc.st EXCEPT
                            !.unbond_records[validator][pipeline_epoch] =
                                Append(@, record)],
                  remaining |-> acc.remaining - to_unbond,
                  amount_after_slashing |-> acc.amount_after_slashing
                      + get_slashed_amount(to_unbond, slashes_for_this_bond),
                  new_bond_values_map |->
                      MapSet(acc.new_bond_values_map, bond_epoch,
                             <<new_bond_amount, to_unbond>>)],
                 todo \ {bond_epoch}, id, validator, pipeline_epoch)

update_unbond_overwrite(s, id, withdraw_epoch, start_epoch, amount) ==
    [s EXCEPT !.unbonds[id] = MapSet(@, <<withdraw_epoch, start_epoch>>, amount)]
update_unbond(s, id, withdraw_epoch, start_epoch, amount) ==
    LET k == <<withdraw_epoch, start_epoch>>
        current == IF k \in DOMAIN s.unbonds[id] THEN s.unbonds[id][k] ELSE 0
    IN  [s EXCEPT !.unbonds[id] = MapSet(@, k, current + amount)]

\* Write the in-memory bond and unbond values back to storage.
\* todo: the bond epochs of new_bond_values_map in the order of iteration.
RECURSIVE unbond_write_back(_, _, _, _, _)
unbond_write_back(s, m, todo, id, withdrawable_epoch) ==
    IF todo = <<>> THEN s
    ELSE LET bond_epoch == Head(todo)
             s1 == [s EXCEPT !.bonds[id] = MapSet(@, bond_epoch, m[bond_epoch][1])]
             s2 == update_unbond(s1, id, withdrawable_epoch, bond_epoch,
                                 m[bond_epoch][2])
         IN  unbond_write_back(s2, m, Tail(todo), id, withdrawable_epoch)

\* The amount still bonded at the pipeline epoch, which an unbond may not exceed.
remaining_at_pipeline_off_by_one(s, id, pipeline_epoch) ==
    bond_get_sum(s.bonds[id], pipeline_epoch) + 1
remaining_at_pipeline(s, id, pipeline_epoch) ==
    bond_get_sum(s.bonds[id], pipeline_epoch)

\* bond_order: the bond start epochs in the order in which new_bond_values_map
\* yields those it holds.
unbond_tokens_in(s, source, validator, amount, current_epoch, debug, bond_order) ==
    LET pipeline_epoch == current_epoch + pipeline_len
        id == <<source, validator>>
        withdrawable_epoch == current_epoch + pipeline_len + unbonding_len
        \* acc: the bonds decremented in memory; s1: written back to storage
        Deltas(token_change, r2) ==
            LET s3 == update_validator_deltas(r2.st, validator, -token_change,
                                              current_epoch, pipeline_len)
                s4 == update_total_deltas(s3, -token_change, current_epoch,
                                          pipeline_len)
            IN  IF r2.err # "Ok" THEN Fail(s, r2.err) ELSE Ok(s4)
        UpdateSet(s1, token_change) ==
            LET is_jailed_at_pipeline ==
                    validator_state_get(s1, validator, pipeline_epoch) = "Jailed"
                Then(r2) == Deltas(token_change, r2)
            IN  Let(IF ~is_jailed_at_pipeline
                    THEN update_validator_set(s1, validator, -token_change,
                                              current_epoch, debug)
                    ELSE Ok(s1),
                    Then)
        Change(amount_after_slashing, s1) ==
            LET stake_at_pipeline ==
                    read_validator_stake(s1, validator, pipeline_epoch)
                Then(token_change) == UpdateSet(s1, token_change)
            IN  Let(Min2(amount_after_slashing, stake_at_pipeline), Then)
        WriteBack(acc) ==
            LET Then(s1) == Change(acc.amount_after_slashing, s1)
                InMap(bond_epoch) == bond_epoch \in DOMAIN acc.new_bond_values_map
            IN  Let(unbond_write_back(acc.st, acc.new_bond_values_map,
                                      SelectSeq(bond_order, InMap), id,
                                      withdrawable_epoch),
                    Then)
    IN  IF source # validator /\ is_validator(s, source, pipeline_epoch)
        THEN Fail(s, "SourceMustNotBeAValidator")
        ELSE IF ~is_validator(s, validator, pipeline_epoch)
        THEN Fail(s, "NotAValidator")
        ELSE IF is_validator_frozen(s, validator, current_epoch)
        THEN Fail(s, "ValidatorIsFrozen")
        ELSE IF amount > remaining_at_pipeline(s, id, pipeline_epoch)
        THEN Fail(s, "UnbondAmountGreaterThanBond")
        ELSE Let(unbond_loop([st |-> s, remaining |-> from_change(amount),
                              amount_after_slashing |-> 0,
                              new_bond_values_map |-> <<>>],
                             DOMAIN s.bonds[id], id, validator, pipeline_epoch),
                 WriteBack)
unbond_tokens(s, source, validator, amount, current_epoch, debug) ==
    unbond_tokens_in(s, source, validator, amount, current_epoch, debug,
                     SetToSeq(DOMAIN s.bonds[<<source, validator>>]))

\* ------------------------------------------------------------ withdraw_tokens
\* The result carries the amount returned to the caller in ret.
\* An unbond is skipped while its withdraw epoch is after the current epoch.
not_yet_withdrawable_never(withdraw_epoch, current_epoch) == FALSE
not_yet_withdrawable(withdraw_epoch, current_epoch) ==
    withdraw_epoch > current_epoch

\* withdraw_tokens counting the slashes of the epoch at which the unbond took
\* effect.
withdraw_tokens_through_effect(s, source, validator, current_epoch) ==
    LET id == <<source, validator>>
        matured == {k \in DOMAIN s.unbonds[id] :
                       ~not_yet_withdrawable(k[1], current_epoch)}
        Payout(k) ==
            LET ForUnbond(slash) == k[2] <= slash.epoch
                                    /\ slash.epoch <= k[1] - unbonding_len
            IN  from_change(get_slashed_amount(s.unbonds[id][k],
                    SelectSeq(s.slashes[validator], ForUnbond)))
        s1 == [s EXCEPT !.unbonds[id] = [k \in (DOMAIN @) \ matured |-> @[k]]]
        Transfer(withdrawable_amount) ==
            LET Result(r2) ==
                    IF r2.err # "Ok" THEN [st |-> s, err |-> r2.err, ret |-> 0]
                    ELSE [st |-> r2.st, err |-> "Ok", ret |-> withdrawable_amount]
            IN  Let(transfer_tokens(s1, withdrawable_amount, ADDRESS, source),
                    Result)
    IN  IF DOMAIN s.unbonds[id] = {}
        THEN [st |-> s, err |-> "NoUnbondFound", ret |-> 0]
        ELSE Let(SumDom([k \in matured |-> Payout(k)], matured), Transfer)
withdraw_tokens(s, source, validator, current_epoch) ==
    LET id == <<source, validator>>
        matured == {k \in DOMAIN s.unbonds[id] :
                       ~not_yet_withdrawable(k[1], current_epoch)}
        Payout(k) ==
            LET ForUnbond(slash) == k[2] <= slash.epoch
                                    /\ slash.epoch < k[1] - unbonding_len
            IN  from_change(get_slashed_amount(s.unbonds[id][k],
                    SelectSeq(s.slashes[validator], ForUnbond)))
        s1 == [s EXCEPT !.unbonds[id] = [k \in (DOMAIN @) \ matured |-> @[k]]]
        Transfer(withdrawable_amount) ==
            LET Result(r2) ==
                    IF r2.err # "Ok" THEN [st |-> s, err |-> r2.err, ret |-> 0]
                    ELSE [st |-> r2.st, err |-> "Ok", ret |-> withdrawable_amount]
            IN  Let(transfer_tokens(s1, withdrawable_amount, ADDRESS, source),
                    Result)
    IN  IF DOMAIN s.unbonds[id] = {}
        THEN [st |-> s, err |-> "NoUnbondFound", ret |-> 0]
        ELSE Let(SumDom([k \in matured |-> Payout(k)], matured), Transfer)

\* ----------------------------------------------------------- become_validator
\* ------------------------------------------ validator_set_update_tendermint
\* The Tendermint voting power of an amount of tokens.
into_tm_voting_power(votes_per_token, tokens) ==
    (votes_per_token * tokens) \div DecOne

\* The update of one entry of the consensus set of the next epoch, or none.
consensus_update(s, x, current_epoch) ==
    LET address == x.addr
        cur_stake == x.stake
        prev_state == validator_state_get(s, address, current_epoch)
        prev_tm_voting_power ==
            into_tm_voting_power(tm_votes_per_token,
                                 read_validator_stake(s, address, current_epoch))
        cur_tm_voting_power == into_tm_voting_power(tm_votes_per_token, cur_stake)
        skip == /\ s.consensus[current_epoch] # {}
                /\ \/ /\ prev_state = "Consensus"
                      /\ prev_tm_voting_power = cur_tm_voting_power
                   \/ prev_tm_voting_power = 0 /\ cur_tm_voting_power = 0
    IN  IF skip THEN {}
        ELSE {[kind |-> "Consensus",
               consensus_key |->
                   validator_consensus_key_get(s, address, current_epoch + 1),
               bonded_stake |-> cur_stake]}

\* The update of one entry of the below-capacity set of the next epoch, or
\* none.
below_capacity_update(s, x, current_epoch) ==
    LET address == x.addr
        prev_tm_voting_power ==
            into_tm_voting_power(tm_votes_per_token,
                                 read_validator_stake(s, address, current_epoch))
        prev_state == validator_state_get(s, address, current_epoch)
    IN  IF prev_tm_voting_power = 0 THEN {}
        ELSE IF s.below_cap[current_epoch] # {} /\ prev_state # "Consensus" THEN {}
        ELSE {[kind |-> "Deactivated",
               consensus_key |->
                   validator_consensus_key_get(s, address, current_epoch + 1),
               bonded_stake |-> 0]}

\* The updates given to Tendermint for the next epoch; a panic when the
\* consensus key of an updated validator is not set.
validator_set_update_tendermint(s, current_epoch) ==
    LET next_epoch == current_epoch + 1
        updates ==
            UNION {consensus_update(s, x, current_epoch) :
                      x \in s.consensus[next_epoch]}
              \cup UNION {below_capacity_update(s, x, current_epoch) :
                             x \in s.below_cap[next_epoch]}
    IN  IF \E u \in updates : u.consensus_key = NoState
        THEN [err |-> "Panic", updates |-> {}]
        ELSE [err |-> "Ok", updates |-> updates]

\* LazySet::try_insert: an error when the value is in the set already.
try_insert(set, val) ==
    IF val \in set THEN [err |-> "ConsensusKeyInUse", set |-> set]
    ELSE [err |-> "Ok", set |-> set \cup {val}]

try_insert_consensus_key(s, consensus_key) ==
    LET r == try_insert(s.consensus_keys, consensus_key)
    IN  IF r.err # "Ok" THEN Fail(s, r.err)
        ELSE Ok([s EXCEPT !.consensus_keys = r.set])

\* become_validator without the check of the consensus key.
become_validator_any_key(s, address, consensus_key, current_epoch) ==
    LET pipeline_epoch == current_epoch + pipeline_len
        s2 == [s EXCEPT
                 !.consensus_keys = @ \cup {consensus_key},
                 !.addresses[pipeline_epoch] = @ \cup {address},
                 !.raw_hash[consensus_key] = address,
                 !.consensus_key[address][pipeline_epoch] = consensus_key,
                 !.deltas[address][pipeline_epoch] = 0]
    IN  Ok(insert_validator_into_validator_set(s2, address, 0, current_epoch,
                                               pipeline_len))

become_validator(s, address, consensus_key, current_epoch) ==
    LET r1 == try_insert_consensus_key(s, consensus_key)
        pipeline_epoch == current_epoch + pipeline_len
        s2 == [r1.st EXCEPT
                 !.addresses[pipeline_epoch] = @ \cup {address},
                 !.raw_hash[consensus_key] = address,
                 !.consensus_key[address][pipeline_epoch] = consensus_key,
                 !.deltas[address][pipeline_epoch] = 0]
    IN  IF r1.err # "Ok" THEN Fail(s, r1.err)
        ELSE Ok(insert_validator_into_validator_set(s2, address, 0, current_epoch,
                                                    pipeline_len))

\* ---------------------------------------------------------------------- slash
\* One pass of the loop of slash over the epochs current_epoch + 1 ..
\* pipeline_epoch: remove the validator from the set its state names.
slash_remove_at(s, validator, e, current_epoch) ==
    LET pipeline_epoch == current_epoch + pipeline_len
        prev_state == validator_state_get(s, validator, e)
        amount_pre == from_change(get_sum(s.deltas[validator], e))
        val_position == s.positions[e][validator]
    IN  IF prev_state = NoState \/ prev_state = "Inactive" THEN Fail(s, "Panic")
        ELSE IF prev_state = "Jailed" THEN Ok(s)
        ELSE IF val_position = NoPos THEN Fail(s, "Panic")
        ELSE IF prev_state = "BelowCapacity"
        THEN Ok([s EXCEPT !.below_cap[e] = SetRemove(@, amount_pre, val_position)])
        ELSE LET s1 == [s EXCEPT !.consensus[e] =
                            SetRemove(@, amount_pre, val_position)]
                 max_below_capacity_amount ==
                     get_max_below_capacity_validator_amount(s1.below_cap[e])
                 position_to_promote ==
                     find_first_position(Bucket(s1.below_cap[e],
                                                max_below_capacity_amount))
                 max_bc_validator == SetGet(s1.below_cap[e],
                                            max_below_capacity_amount,
                                            position_to_promote)
                 s2 == [s1 EXCEPT !.below_cap[e] =
                            SetRemove(@, max_below_capacity_amount,
                                      position_to_promote)]
                 s3 == insert_validator_into_set(s2, "c", e,
                           max_below_capacity_amount, max_bc_validator)
             IN  IF e = pipeline_epoch /\ max_below_capacity_amount # NoAmount
                 THEN Ok(validator_state_set(s3, max_bc_validator, "Consensus",
                                             current_epoch, pipeline_len))
                 ELSE Ok(s1)

RECURSIVE slash_remove_loop(_, _, _, _)
slash_remove_loop(r, validator, e, current_epoch) ==
    IF r.err # "Ok" \/ e > current_epoch + pipeline_len THEN r
    ELSE slash_remove_loop(slash_remove_at(r.st, validator, e, current_epoch),
                           validator, e + 1, current_epoch)

RECURSIVE slash_jail_loop(_, _, _, _)
slash_jail_loop(s, validator, offset, current_epoch) ==
    IF offset > pipeline_len THEN s
    ELSE slash_jail_loop(
             validator_state_set(s, validator, "Jailed", current_epoch, offset),
             validator, offset + 1, current_epoch)

\* The validator is jailed and the slash is not enqueued.
slash_not_enqueued(s, current_epoch, evidence_epoch, slash_type, validator) ==
    Ok(slash_jail_loop(s, validator, 1, current_epoch))

\* slash enqueueing the slash for one epoch later.
slash_processed_late(s, current_epoch, evidence_epoch, slash_type, validator) ==
    LET new_slash == [epoch |-> evidence_epoch, type |-> slash_type, rate |-> 0]
        processing_epoch == evidence_epoch + unbonding_len + 2
        s1 == [s EXCEPT !.enqueued[processing_epoch][validator] =
                   Append(@, new_slash)]
        last_slash_epoch == s1.last_slash[validator]
        s2 == IF last_slash_epoch = NoEpoch \/ evidence_epoch > last_slash_epoch
              THEN [s1 EXCEPT !.last_slash[validator] = evidence_epoch]
              ELSE s1
        Jail(r3) ==
            IF r3.err # "Ok" THEN Fail(s, r3.err)
            ELSE Ok(slash_jail_loop(r3.st, validator, 1, current_epoch))
    IN  IF validator_state_get(s, validator, current_epoch) = NoState
        THEN Fail(s, "Panic")
        ELSE Let(slash_remove_loop(Ok(s2), validator, current_epoch + 1,
                                   current_epoch),
                 Jail)
slash(s, current_epoch, evidence_epoch, slash_type, validator) ==
    LET new_slash == [epoch |-> evidence_epoch, type |-> slash_type, rate |-> 0]
        processing_epoch == evidence_epoch + unbonding_len + 1
        s1 == [s EXCEPT !.enqueued[processing_epoch][validator] =
                   Append(@, new_slash)]
        last_slash_epoch == s1.last_slash[validator]
        s2 == IF last_slash_epoch = NoEpoch \/ evidence_epoch > last_slash_epoch
              THEN [s1 EXCEPT !.last_slash[validator] = evidence_epoch]
              ELSE s1
        Jail(r3) ==
            IF r3.err # "Ok" THEN Fail(s, r3.err)
            ELSE Ok(slash_jail_loop(r3.st, validator, 1, current_epoch))
    IN  IF validator_state_get(s, validator, current_epoch) = NoState
        THEN Fail(s, "Panic")
        ELSE Let(slash_remove_loop(Ok(s2), validator, current_epoch + 1,
                                   current_epoch),
                 Jail)

\* ------------------------------------------------- compute_cubic_slash_rate
\* The validators with an enqueued slash, one occurrence for each slash.
RECURSIVE EnqueuedValidators(_, _)
EnqueuedValidators(enq, todo) ==
    IF todo = {} THEN <<>>
    ELSE LET v == CHOOSE x \in todo : TRUE
         IN  [i \in 1..Len(enq[v]) |-> v] \o EnqueuedValidators(enq, todo \ {v})

\* The epochs of the window around the infraction epoch.
cubic_window(infraction_epoch) ==
    Max2(0, infraction_epoch - cubic_slashing_window_length)
        ..(infraction_epoch + cubic_slashing_window_length)
\* Is the total stake zero at an epoch of the window (a division by zero)?
cubic_divides_by_zero(s, infraction_epoch) ==
    \E e \in cubic_window(infraction_epoch) : read_total_stake(s, e) = 0

RECURSIVE sum_vp_fraction(_, _, _)
sum_vp_fraction(s, e, end_epoch) ==
    IF e > end_epoch THEN 0
    ELSE LET total_stake == read_total_stake(s, e)
             processing_epoch == e + unbonding_len + 1
             vals == IF processing_epoch \in Epochs
                     THEN EnqueuedValidators(s.enqueued[processing_epoch], Validators)
                     ELSE <<>>
             infracting_stake ==
                 SumSeq([i \in 1..Len(vals) |-> read_validator_stake(s, vals[i], e)])
         IN  DecDiv(infracting_stake, total_stake)
             + sum_vp_fraction(s, e + 1, end_epoch)

compute_cubic_slash_rate(s, infraction_epoch) ==
    LET start_epoch == Max2(0, infraction_epoch - cubic_slashing_window_length)
        end_epoch == infraction_epoch + cubic_slashing_window_length
        f == sum_vp_fraction(s, start_epoch, end_epoch)
    IN  DecMul(DecMul(9 * DecOne, f), f)

\* ------------------------------------------------------------ process_slashes
\* The unbond records of a validator at one epoch that started at or before
\* the infraction epoch, each reduced by the earlier slashes that apply to it.
unbonded_at(s, validator, e, infraction_epoch) ==
    LET recs == s.unbond_records[validator][e]
        Amount(unbond) ==
            LET Prev(val_slash) ==
                    unbond.start <= val_slash.epoch
                    /\ val_slash.epoch + unbonding_len < infraction_epoch
            IN  IF unbond.start > infraction_epoch THEN 0
                ELSE from_change(get_slashed_amount(unbond.amount,
                         SelectSeq(s.slashes[validator], Prev)))
    IN  SumSeq([i \in 1..Len(recs) |-> Amount(recs[i])])

RECURSIVE unbonded_between(_, _, _, _, _)
unbonded_between(s, validator, from, to, infraction_epoch) ==
    IF from > to THEN 0
    ELSE unbonded_at(s, validator, from, infraction_epoch)
         + unbonded_between(s, validator, from + 1, to, infraction_epoch)

\* The loop over the offsets 0 .. pipeline_len - 1 for one slash: the
\* (offset, diff_slashed_amount) pairs pushed to deltas_for_update.
RECURSIVE slash_offsets(_, _, _, _, _, _, _, _)
slash_offsets(s, validator, rate, stake_at_infraction, total_unbonded, last_slash, offset, current_epoch) ==
    IF offset >= pipeline_len THEN <<>>
    ELSE LET infraction_epoch == current_epoch - unbonding_len - 1
             Push(unbonded, this_slash) ==
                 LET diff_slashed_amount == last_slash - this_slash
                 IN  <<<<offset, diff_slashed_amount>>>>
                     \o slash_offsets(s, validator, rate, stake_at_infraction,
                                      unbonded, this_slash, offset + 1,
                                      current_epoch)
             ThisSlash(unbonded) ==
                 LET Then(this_slash) == Push(unbonded, this_slash)
                 IN  Let(decimal_mult_amount(rate,
                             checked_sub_or_default(stake_at_infraction, unbonded)),
                         Then)
         IN  Let(total_unbonded
                     + unbonded_at(s, validator, current_epoch + offset,
                                   infraction_epoch),
                 ThisSlash)

\* The loop over the enqueued slashes of one validator: each is pushed to the
\* validator's slashes, then its deltas are computed.  acc is [st, info].
\* validator_slashes_loop counting the unbonds of the infraction epoch too.
RECURSIVE validator_slashes_loop_from_infraction(_, _, _, _, _)
validator_slashes_loop_from_infraction(acc, validator, slashes, stake_at_infraction, current_epoch) ==
    IF slashes = <<>> THEN acc
    ELSE LET infraction_epoch == current_epoch - unbonding_len - 1
             enqueued_slash == Head(slashes)
             s1 == [acc.st EXCEPT !.slashes[validator] = Append(@, enqueued_slash)]
             total_unbonded ==
                 unbonded_between(s1, validator, infraction_epoch,
                                  current_epoch - 1, infraction_epoch)
             info == slash_offsets(s1, validator, enqueued_slash.rate,
                                   stake_at_infraction, total_unbonded, 0, 0,
                                   current_epoch)
         IN  validator_slashes_loop_from_infraction([st |-> s1, info |-> acc.info \o info],
                                    validator, Tail(slashes), stake_at_infraction,
                                    current_epoch)
RECURSIVE validator_slashes_loop(_, _, _, _, _)
validator_slashes_loop(acc, validator, slashes, stake_at_infraction, current_epoch) ==
    IF slashes = <<>> THEN acc
    ELSE LET infraction_epoch == current_epoch - unbonding_len - 1
             enqueued_slash == Head(slashes)
             s1 == [acc.st EXCEPT !.slashes[validator] = Append(@, enqueued_slash)]
             total_unbonded ==
                 unbonded_between(s1, validator, infraction_epoch + 1,
                                  current_epoch - 1, infraction_epoch)
             info == slash_offsets(s1, validator, enqueued_slash.rate,
                                   stake_at_infraction, total_unbonded, 0, 0,
                                   current_epoch)
         IN  validator_slashes_loop([st |-> s1, info |-> acc.info \o info],
                                    validator, Tail(slashes), stake_at_infraction,
                                    current_epoch)

\* apply_deltas with neither clamp: every delta is applied as computed.
RECURSIVE apply_deltas_unclamped(_, _, _, _, _)
apply_deltas_unclamped(acc, validator, info, current_epoch, debug) ==
    IF info = <<>> \/ acc.err # "Ok" THEN acc
    ELSE LET infraction_epoch == current_epoch - unbonding_len - 1
             offset == Head(info)[1]
             delta == Head(info)[2]
             validator_stake_at_offset ==
                 read_validator_stake(acc.st, validator, current_epoch + offset)
             validator_stake_at_infraction ==
                 read_validator_stake(acc.st, validator, infraction_epoch)
             capped == FALSE
             change == delta
             s1 == update_validator_deltas(acc.st, validator, change,
                                           current_epoch, offset)
             s2 == update_total_deltas(s1, change, current_epoch, offset)
         IN  IF debug /\ capped /\ validator_stake_at_offset + change < 0
             THEN [acc EXCEPT !.err = "Panic"]
             ELSE apply_deltas_unclamped([st |-> s2,
                                total_slashed_val |-> acc.total_slashed_val - change,
                                err |-> "Ok"],
                               validator, Tail(info), current_epoch, debug)
\* The loop that applies the deltas of one validator.  acc is
\* [st, total_slashed_val, err].
RECURSIVE apply_deltas(_, _, _, _, _)
apply_deltas(acc, validator, info, current_epoch, debug) ==
    IF info = <<>> \/ acc.err # "Ok" THEN acc
    ELSE LET infraction_epoch == current_epoch - unbonding_len - 1
             offset == Head(info)[1]
             delta == Head(info)[2]
             validator_stake_at_offset ==
                 read_validator_stake(acc.st, validator, current_epoch + offset)
             validator_stake_at_infraction ==
                 read_validator_stake(acc.st, validator, infraction_epoch)
             change0 == IF validator_stake_at_offset + delta < 0
                        THEN -validator_stake_at_offset ELSE delta
             capped == acc.total_slashed_val - change0 > validator_stake_at_infraction
             change == IF capped
                       THEN acc.total_slashed_val - validator_stake_at_infraction
                       ELSE change0
             s1 == update_validator_deltas(acc.st, validator, change,
                                           current_epoch, offset)
             s2 == update_total_deltas(s1, change, current_epoch, offset)
         IN  IF debug /\ capped /\ validator_stake_at_offset + change < 0
             THEN [acc EXCEPT !.err = "Panic"]
             ELSE apply_deltas([st |-> s2,
                                total_slashed_val |-> acc.total_slashed_val - change,
                                err |-> "Ok"],
                               validator, Tail(info), current_epoch, debug)

\* Both loops over the validators with enqueued slashes.  acc is
\* [st, total_slashed, err].
\* process_validators with the slashed total overwritten by each validator
\* instead of accumulated.
RECURSIVE process_validators_last_total(_, _, _, _, _)
process_validators_last_total(acc, todo, rates, current_epoch, debug) ==
    IF todo = <<>> \/ acc.err # "Ok" THEN acc
    ELSE LET infraction_epoch == current_epoch - unbonding_len - 1
             validator == Head(todo)
             validator_stake_at_infraction ==
                 read_validator_stake(acc.st, validator, infraction_epoch)
             \* a1: the deltas of the validator computed; a2: applied
             Rest(a2) ==
                 process_validators_last_total(
                     [st |-> a2.st,
                      total_slashed |-> a2.total_slashed_val,
                      err |-> a2.err],
                     Tail(todo), rates, current_epoch, debug)
             Update(a1) ==
                 Let(apply_deltas([st |-> a1.st, total_slashed_val |-> 0,
                                   err |-> "Ok"],
                                  validator, a1.info, current_epoch, debug),
                     Rest)
         IN  Let(validator_slashes_loop([st |-> acc.st, info |-> <<>>],
                     validator, rates[validator],
                     validator_stake_at_infraction, current_epoch),
                 Update)
RECURSIVE process_validators(_, _, _, _, _)
process_validators(acc, todo, rates, current_epoch, debug) ==
    IF todo = <<>> \/ acc.err # "Ok" THEN acc
    ELSE LET infraction_epoch == current_epoch - unbonding_len - 1
             validator == Head(todo)
             validator_stake_at_infraction ==
                 read_validator_stake(acc.st, validator, infraction_epoch)
             \* a1: the deltas of the validator computed; a2: applied
             Rest(a2) ==
                 process_validators(
                     [st |-> a2.st,
                      total_slashed |-> acc.total_slashed + a2.total_slashed_val,
                      err |-> a2.err],
                     Tail(todo), rates, current_epoch, debug)
             Update(a1) ==
                 Let(apply_deltas([st |-> a1.st, total_slashed_val |-> 0,
                                   err |-> "Ok"],
                                  validator, a1.info, current_epoch, debug),
                     Rest)
         IN  Let(validator_slashes_loop([st |-> acc.st, info |-> <<>>],
                     validator, rates[validator],
                     validator_stake_at_infraction, current_epoch),
                 Update)

\* validator_order: the validators in the order in which validators_and_slashes
\* and deltas_for_update yield those they hold.
process_slashes_in(s, current_epoch, debug, validator_order) ==
    IF current_epoch < unbonding_len + 1 THEN Ok(s) ELSE
    LET infraction_epoch == current_epoch - unbonding_len - 1
        enqueued_slashes == s.enqueued[current_epoch]
        slashed == {v \in Validators : enqueued_slashes[v] # <<>>}
        Slashed(v) == v \in slashed
        cubic_slash_rate == compute_cubic_slash_rate(s, infraction_epoch)
        \* validators_and_slashes: the enqueued slashes with their final rate
        rates == [v \in Validators |->
                    [i \in 1..Len(enqueued_slashes[v]) |->
                        [enqueued_slashes[v][i] EXCEPT !.rate =
                            Min2(DecOne, Max2(get_slash_rate(enqueued_slashes[v][i].type),
                                              cubic_slash_rate))]]]
        Result(r) == IF r.err # "Ok" THEN Fail(s, r.err) ELSE r
        Transfer(acc) ==
            IF acc.err # "Ok" THEN Fail(s, acc.err)
            ELSE Let(transfer_tokens(acc.st, from_change(acc.total_slashed),
                                     ADDRESS, SLASH_POOL_ADDRESS),
                     Result)
    IN  IF slashed = {} THEN Ok(s)
        ELSE IF cubic_divides_by_zero(s, infraction_epoch) THEN Fail(s, "Panic")
        ELSE Let(process_validators([st |-> s, total_slashed |-> 0, err |-> "Ok"],
                                    SelectSeq(validator_order, Slashed), rates,
                                    current_epoch, debug),
                 Transfer)
process_slashes(s, current_epoch, debug) ==
    process_slashes_in(s, current_epoch, debug, SetToSeq(Validators))

\* ----------------------------------------------------------- unjail_validator
\* unjail_validator without the wait after the last slash.
unjail_validator_no_wait(s, validator, current_epoch) ==
    LET state == validator_state_get(s, validator, current_epoch)
        stake == read_validator_stake(s, validator, current_epoch + pipeline_len)
    IN  IF state = NoState THEN Fail(s, "NotAValidator")
        ELSE IF state # "Jailed" THEN Fail(s, "NotJailed")
        ELSE Ok(insert_validator_into_validator_set(s, validator, stake,
                                                    current_epoch, pipeline_len))

unjail_validator(s, validator, current_epoch) ==
    LET state == validator_state_get(s, validator, current_epoch)
        last_slash_epoch ==
            IF s.last_slash[validator] = NoEpoch THEN 0 ELSE s.last_slash[validator]
        eligible_epoch == last_slash_epoch + unbonding_len
        pipeline_epoch == current_epoch + pipeline_len
        stake == read_validator_stake(s, validator, pipeline_epoch)
    IN  IF state = NoState THEN Fail(s, "NotAValidator")
        ELSE IF state # "Jailed" THEN Fail(s, "NotJailed")
        ELSE IF current_epoch < eligible_epoch THEN Fail(s, "NotEligible")
        ELSE Ok(insert_validator_into_validator_set(s, validator, stake,
                                                    current_epoch, pipeline_len))

\* ------------------------------------------------------------- the machine
\* The genesis validator lists, in the order they are handed to init_genesis.
GenesisA ==
    << [address |-> "v1", tokens |-> 2, consensus_key |-> "k1"],
       [address |-> "v2", tokens |-> 1, consensus_key |-> "k2"],
       [address |-> "v3", tokens |-> 1, consensus_key |-> "k3"] >>
GenesisB ==
    << [address |-> "v1", tokens |-> 2, consensus_key |-> "k1"],
       [address |-> "v2", tokens |-> 1, consensus_key |-> "k2"] >>
Geneses == {GenesisA, GenesisB}

\* The token balances at genesis: v1 never held the staking token.
GenesisBalances ==
    [a \in Accounts |->
        IF a = "d1" THEN 1
        ELSE IF a = "v2" THEN 2
        ELSE IF a = "v3" THEN 1
        ELSE NoBalance]

NewKeys == {"k3", "k4"}

Done(op, err, ret) == [op |-> op, err |-> err, ret |-> ret]
\* The result r of an operation becomes the storage and the last result.
Commit(op, r, ret) ==
    /\ storage' = r.st
    /\ last' = Done(op, r.err, ret)

Genesis(g) ==
    /\ storage = init_genesis([EmptyStorage EXCEPT !.balance = GenesisBalances],
                              g, 0)
    /\ epoch = 0
    /\ last = Done("init_genesis", "Ok", 0)
    /\ ntx = 0

Init == \E g \in Geneses : Genesis(g)

\* A transaction that fails leaves storage as it was: the host drops its
\* write log.  ntx counts the transactions and the evidence handled so far.
Bond(source, validator, amount, debug) ==
    /\ Commit("bond_tokens",
              bond_tokens(storage, source, validator, amount, epoch, debug), 0)
    /\ ntx' = ntx + 1
    /\ UNCHANGED epoch

Unbond(source, validator, amount, debug) ==
    /\ Commit("unbond_tokens",
              unbond_tokens(storage, source, validator, amount, epoch, debug), 0)
    /\ ntx' = ntx + 1
    /\ UNCHANGED epoch

Withdraw(source, validator) ==
    /\ LET Returned(r) == Commit("withdraw_tokens", r, r.ret)
       IN  Let(withdraw_tokens(storage, source, validator, epoch), Returned)
    /\ ntx' = ntx + 1
    /\ UNCHANGED epoch

BecomeValidator(address, consensus_key) ==
    /\ Commit("become_validator",
              become_validator(storage, address, consensus_key, epoch), 0)
    /\ ntx' = ntx + 1
    /\ UNCHANGED epoch

Unjail(validator) ==
    /\ Commit("unjail_validator",
              unjail_validator(storage, validator, epoch), 0)
    /\ ntx' = ntx + 1
    /\ UNCHANGED epoch

\* Evidence of a misbehaviour at evidence_epoch by a validator that was in the
\* consensus set then; the shell drops evidence older than unbonding_len.
Slash(validator, evidence_epoch, slash_type) ==
    /\ evidence_epoch <= epoch
    /\ evidence_epoch + unbonding_len > epoch
    /\ validator_state_get(storage, validator, evidence_epoch) = "Consensus"
    /\ LET Applied(r) == r.err = "Ok" /\ Commit("slash", r, 0)
       IN  Let(slash(storage, epoch, evidence_epoch, slash_type, validator),
               Applied)
    /\ ntx' = ntx + 1
    /\ UNCHANGED epoch

\* The first block of a new epoch: the enqueued slashes are processed, then the
\* validator sets are copied to the new pipeline epoch.
new_epoch(s, current_epoch, debug) ==
    LET Copy(r) ==
            IF r.err # "Ok" THEN r
            \* debug_assert!(!consensus.is_empty(storage)?) of the copy
            ELSE IF debug /\ r.st.consensus[current_epoch + pipeline_len - 1] = {}
            THEN Fail(s, "Panic")
            ELSE Ok(copy_validator_sets_and_positions(r.st, current_epoch,
                        current_epoch + pipeline_len))
    IN  Let(process_slashes(s, current_epoch, debug), Copy)

AdvanceEpoch(debug) ==
    /\ epoch < MaxEpoch
    /\ LET Applied(r) == r.err = "Ok" /\ Commit("process_slashes", r, 0)
       IN  Let(new_epoch(storage, epoch + 1, debug), Applied)
    /\ epoch' = epoch + 1
    /\ UNCHANGED ntx

Next ==
    \/ /\ ntx < MaxTx
       /\ \E id \in BondIds, amount \in Amounts, debug \in BOOLEAN :
             Bond(id[1], id[2], amount, debug)
    \/ /\ ntx < MaxTx
       /\ \E id \in BondIds, amount \in Amounts, debug \in BOOLEAN :
             Unbond(id[1], id[2], amount, debug)
    \/ /\ ntx < MaxTx
       /\ \E id \in BondIds : Withdraw(id[1], id[2])
    \/ /\ ntx < MaxTx
       /\ \E address \in Validators, consensus_key \in NewKeys :
             BecomeValidator(address, consensus_key)
    \/ /\ ntx < MaxTx
       /\ \E validator \in Validators : Unjail(validator)
    \/ /\ ntx < MaxTx
       /\ \E validator \in Validators, evidence_epoch \in 0..MaxEpoch,
             slash_type \in SlashTypes :
             Slash(validator, evidence_epoch, slash_type)
    \/ \E debug \in BOOLEAN : AdvanceEpoch(debug)

Spec == Init /\ [][Next]_vars

\* The evidence machine: only evidence, unjailing and epoch changes, from the
\* three-validator genesis, with a larger budget.
EvidenceInit == Genesis(GenesisA)

EvidenceNext ==
    \/ /\ ntx < MaxEvidence
       /\ \E validator \in Validators, evidence_epoch \in 0..MaxEpoch,
             slash_type \in SlashTypes :
             Slash(validator, evidence_epoch, slash_type)
    \/ /\ ntx < MaxEvidence
       /\ \E validator \in Validators : Unjail(validator)
    \/ \E debug \in BOOLEAN : AdvanceEpoch(debug)

EvidenceSpec == EvidenceInit /\ [][EvidenceNext]_vars

\* The evidence machine with a driver that keeps producing blocks: the first
\* block of the next epoch is eventually processed.
MaxPending == 3

DriverNext ==
    \/ /\ ntx < MaxPending
       /\ \E validator \in Validators, evidence_epoch \in 0..MaxEpoch,
             slash_type \in SlashTypes :
             Slash(validator, evidence_epoch, slash_type)
    \/ /\ ntx < MaxPending
       /\ \E validator \in Validators : Unjail(validator)
    \/ \E debug \in BOOLEAN : AdvanceEpoch(debug)

\* The first block of the next epoch is processed without a panic.
CanAdvance ==
    \A debug \in BOOLEAN : new_epoch(storage, epoch + 1, debug).err = "Ok"

\* The steps that begin a new epoch: in DriverNext, those of AdvanceEpoch.
NewEpochStep == epoch < MaxEpoch /\ epoch' = epoch + 1

DriverSpec ==
    /\ EvidenceInit
    /\ [][DriverNext]_vars
    /\ WF_epoch(NewEpochStep)

\* The payout machine: withdraw_tokens applied once to storage that holds the
\* unbonds of one bond and the finalized slashes of its validator, drawn from
\* bounded sets.
MaxSlashes == 3

PayoutAmounts == {10, DecOne}
PayoutRates == {duplicate_vote_min_slash_rate, DecOne}
PayoutEpochs == {MaxEpoch, MaxEpoch + unbonding_len + 1}
\* The keys (withdraw_epoch, start_epoch) unbond_tokens writes: the unbond
\* took effect at withdraw_epoch - unbonding_len, not before the bond started.
PayoutUnbondKeys ==
    {k \in {pipeline_len + unbonding_len, pipeline_len + 2 * unbonding_len}
              \X {0, pipeline_len} :
        k[2] + unbonding_len <= k[1]}
\* The slashes process_slashes has appended by current_epoch: in the order of
\* their processing epochs, which is the order of their infraction epochs.
FinalizedSlashes(current_epoch) ==
    LET slashes == [epoch : 0..(current_epoch - unbonding_len - 1),
                    type : {"DuplicateVote"},
                    rate : PayoutRates]
    IN  {q \in UNION {[1..n -> slashes] : n \in 0..MaxSlashes} :
            \A i \in 1..(Len(q) - 1) : q[i].epoch <= q[i + 1].epoch}

PayoutStorage(id, unbonds, slashes) ==
    [EmptyStorage EXCEPT
        !.unbonds[id] = unbonds,
        !.slashes[id[2]] = slashes,
        !.balance[ADDRESS] = SumDom(unbonds, DOMAIN unbonds)]

PayoutInit ==
    /\ epoch \in PayoutEpochs
    /\ \E id \in {<<"v1", "v1">>},
          keys \in {K \in SUBSET PayoutUnbondKeys : Cardinality(K) \in 1..2},
          slashes \in FinalizedSlashes(epoch) :
          \E unbonds \in [keys -> PayoutAmounts] :
              storage = PayoutStorage(id, unbonds, slashes)
    /\ last = Done("init_genesis", "Ok", 0)
    /\ ntx = 0

PayoutNext ==
    /\ ntx < 1
    /\ \E id \in BondIds : Withdraw(id[1], id[2])

PayoutSpec == PayoutInit /\ [][PayoutNext]_vars

\* The greatest stake a validator is placed with.
MaxStake == 3

\* The genesis machine: init_genesis applied to a list of validators drawn from
\* bounded sets, in any order, then epoch changes.
GenesisKey(address) ==
    IF address = "v1" THEN "k1" ELSE IF address = "v2" THEN "k2" ELSE "k3"
GenesisLists ==
    UNION {{[i \in 1..Cardinality(V) |->
                [address |-> order[i], tokens |-> tokens[i],
                 consensus_key |-> GenesisKey(order[i])]] :
               order \in Orders(V), tokens \in [1..Cardinality(V) -> 0..MaxStake]} :
           V \in (SUBSET Validators) \ {{}}}

GenesisInit == \E g \in GenesisLists : Genesis(g)

GenesisNext == \E debug \in BOOLEAN : AdvanceEpoch(debug)

GenesisSpec == GenesisInit /\ [][GenesisNext]_vars

\* ------------------------------------------------------------- type invariant
StakeNonNegative ==
    \A e \in Epochs :
        /\ get_sum(storage.total_deltas, e) >= 0
        /\ \A v \in Validators : get_sum(storage.deltas[v], e) >= 0

\* ----------------------------------------------------------------- the window
Window == epoch..(epoch + pipeline_len)
AddressesIn(set) == {x.addr : x \in set}

\* C1: at every epoch of the window the stakes of the validators add up to the
\* total stake.
C1_StakeSumsToTotal ==
    \A e \in Window :
        SumSeq([i \in 1..3 |->
                   read_validator_stake(storage, <<"v1", "v2", "v3">>[i], e)])
            = read_total_stake(storage, e)

\* C2: at every epoch of the window the addresses stored in a validator set
\* are exactly the validators whose state is that of the set; a jailed validator
\* is in neither set.
C2_SetsMatchStates ==
    \A e \in Window :
        /\ AddressesIn(storage.consensus[e]) =
               {v \in Validators : validator_state_get(storage, v, e) = "Consensus"}
        /\ AddressesIn(storage.below_cap[e]) =
               {v \in Validators :
                    validator_state_get(storage, v, e) = "BelowCapacity"}

\* C3: at every epoch of the window the consensus set holds at most
\* max_validator_slots validators.
C3_ConsensusAtMostK ==
    \A e \in Window : Cardinality(storage.consensus[e]) <= max_validator_slots

\* C4: at every epoch of the window, when a validator waits below capacity the
\* consensus set is full.
C4_NoFreeSlotWhileWaiting ==
    \A e \in Window :
        storage.below_cap[e] # {} =>
            Cardinality(storage.consensus[e]) = max_validator_slots

\* ------------------------------------------------------------------ balances
Balance(s, a) == IF s.balance[a] = NoBalance THEN 0 ELSE s.balance[a]
BondedTotal(s) ==
    SumDom([id \in BondIds |-> SumDom(s.bonds[id], DOMAIN s.bonds[id])], BondIds)
UnbondedTotal(s) ==
    SumDom([id \in BondIds |-> SumDom(s.unbonds[id], DOMAIN s.unbonds[id])], BondIds)

\* C5: the PoS account holds the bonded amounts plus the face values of the
\* unbonds not yet withdrawn, minus what went to the slash pool.
C5_PosBalance ==
    Balance(storage, ADDRESS) =
        BondedTotal(storage) + UnbondedTotal(storage)
            - Balance(storage, SLASH_POOL_ADDRESS)

\* C6: a bond that succeeds moves exactly the amount from the source to the PoS
\* account; a bond whose source holds less than the amount, or has no balance
\* entry, fails and changes neither the bond nor the validator's stake.
C6_BondMovesTokens ==
    [][\A id \in BondIds, amount \in Amounts, debug \in BOOLEAN :
          (last'.op = "bond_tokens" /\ Bond(id[1], id[2], amount, debug)) =>
              LET src == id[1]
                  bal == storage.balance[src]
              IN  /\ last'.err = "Ok" =>
                        /\ Balance(storage', src) = Balance(storage, src) - amount
                        /\ Balance(storage', ADDRESS) =
                               Balance(storage, ADDRESS) + amount
                  /\ (bal = NoBalance \/ bal < amount) =>
                        /\ last'.err # "Ok"
                        /\ storage'.bonds = storage.bonds
                        /\ storage'.deltas = storage.deltas]_vars

\* C7: a bond of a positive amount at epoch e_c changes no stake, no total and
\* no validator set before e_c + pipeline_len, and adds the amount to the
\* stake of the validator and to the total at e_c + pipeline_len and later.
C7_BondTakesEffectAtPipeline ==
    [][\A id \in BondIds, amount \in Amounts, debug \in BOOLEAN :
          (/\ last'.op = "bond_tokens"
           /\ last'.err = "Ok"
           /\ Bond(id[1], id[2], amount, debug)) =>
              \A e \in Epochs :
                  IF e < epoch + pipeline_len
                  THEN /\ read_validator_stake(storage', id[2], e) =
                              read_validator_stake(storage, id[2], e)
                       /\ read_total_stake(storage', e) = read_total_stake(storage, e)
                       /\ storage'.consensus[e] = storage.consensus[e]
                       /\ storage'.below_cap[e] = storage.below_cap[e]
                  ELSE /\ read_validator_stake(storage', id[2], e) =
                              read_validator_stake(storage, id[2], e) + amount
                       /\ read_total_stake(storage', e) =
                              read_total_stake(storage, e) + amount]_vars

\* A bond has succeeded in the current epoch and the stake of a validator steps
\* up at the pipeline epoch.
C7_Witness ==
    /\ last.op = "bond_tokens"
    /\ last.err = "Ok"
    /\ \E v \in Validators :
          read_validator_stake(storage, v, epoch + pipeline_len) >
              read_validator_stake(storage, v, epoch + pipeline_len - 1)

\* The checks of unbond_tokens that come before the check of the amount.
UnbondEarlierChecksPass(id) ==
    /\ ~(id[1] # id[2] /\ is_validator(storage, id[1], epoch + pipeline_len))
    /\ is_validator(storage, id[2], epoch + pipeline_len)
    /\ ~is_validator_frozen(storage, id[2], epoch)

BondsNonNegative ==
    \A id \in BondIds, e \in Epochs : bond_get_sum(storage.bonds[id], e) >= 0

\* C8 (amended): the bond sums are never negative; an unbond of more than is
\* bonded at the pipeline epoch is rejected and changes nothing, and the error
\* is UnbondAmountGreaterThanBond whenever the checks of the source, of the
\* validator and of the frozen period pass.
C8_UnbondTooMuchRejected ==
    /\ []BondsNonNegative
    /\ [][\A id \in BondIds, amount \in Amounts, debug \in BOOLEAN :
            (/\ last'.op = "unbond_tokens"
             /\ amount > bond_get_sum(storage.bonds[id], epoch + pipeline_len)
             /\ Unbond(id[1], id[2], amount, debug)) =>
                /\ last'.err # "Ok"
                /\ storage' = storage
                /\ UnbondEarlierChecksPass(id) =>
                       last'.err = "UnbondAmountGreaterThanBond"]_vars

\* An unbond has just been rejected for its amount.
C8_Witness ==
    /\ last.op = "unbond_tokens"
    /\ last.err = "UnbondAmountGreaterThanBond"

\* C8 as stated: every unbond of more than is bonded is rejected with
\* UnbondAmountGreaterThanBond.
C8_AsStated ==
    [][\A id \in BondIds, amount \in Amounts, debug \in BOOLEAN :
          (/\ last'.op = "unbond_tokens"
           /\ amount > bond_get_sum(storage.bonds[id], epoch + pipeline_len)
           /\ Unbond(id[1], id[2], amount, debug)) =>
              /\ last'.err = "UnbondAmountGreaterThanBond"
              /\ storage' = storage]_vars

\* The epochs from + 1 .. to begin one after the other, with no transaction.
RECURSIVE advance_epochs(_, _, _)
advance_epochs(r, from, to) ==
    IF r.err # "Ok" \/ from >= to THEN r
    ELSE advance_epochs(new_epoch(r.st, from + 1, FALSE), from + 1, to)

\* C9: a pair bonds x and unbonds x, no slash of the validator is finalized,
\* and the pair withdraws at e_c + pipeline_len + unbonding_len: the withdrawal
\* moves x from the PoS account to the source, returns x, removes the unbond,
\* and the PoS balance is what it was before the bond.
C9_UnbondWithdrawRoundTrip ==
    \A id \in BondIds, x \in Amounts :
        LET withdraw_epoch == epoch + pipeline_len + unbonding_len
            r1 == bond_tokens(storage, id[1], id[2], x, epoch, FALSE)
            r2 == unbond_tokens(r1.st, id[1], id[2], x, epoch, FALSE)
            r3 == advance_epochs(Ok(r2.st), epoch, withdraw_epoch)
            r4 == withdraw_tokens(r3.st, id[1], id[2], withdraw_epoch)
        IN  (/\ withdraw_epoch <= MaxEpoch
             /\ DOMAIN storage.unbonds[id] = {}
             /\ r1.err = "Ok" /\ r2.err = "Ok" /\ r3.err = "Ok"
             /\ r3.st.slashes[id[2]] = <<>>
             /\ \A e \in Epochs : r3.st.enqueued[e][id[2]] = <<>>) =>
                /\ r4.err = "Ok"
                /\ r4.ret = x
                /\ Balance(r4.st, ADDRESS) = Balance(r3.st, ADDRESS) - x
                /\ Balance(r4.st, id[1]) = Balance(r3.st, id[1]) + x
                /\ DOMAIN r4.st.unbonds[id] = {}
                /\ Balance(r4.st, ADDRESS) = Balance(storage, ADDRESS)

UnbondEntry(s, id, withdraw_epoch, start_epoch) ==
    IF <<withdraw_epoch, start_epoch>> \in DOMAIN s.unbonds[id]
    THEN s.unbonds[id][<<withdraw_epoch, start_epoch>>] ELSE 0

\* C10 (amended): a bond of x followed in the same epoch by an unbond of x by
\* the same pair restores the pair's bond delta and the validator's stake at
\* the pipeline epoch, and adds x to the unbond entry of the pair with withdraw
\* epoch e_c + pipeline_len + unbonding_len.
C10_BondThenUnbond ==
    \A id \in BondIds, x \in Amounts, debug \in BOOLEAN :
        LET pipeline_epoch == epoch + pipeline_len
            withdraw_epoch == pipeline_epoch + unbonding_len
            r1 == bond_tokens(storage, id[1], id[2], x, epoch, debug)
            r2 == unbond_tokens(r1.st, id[1], id[2], x, epoch, debug)
        IN  (r1.err = "Ok" /\ r2.err = "Ok") =>
                /\ bond_get_delta_val(r2.st.bonds[id], pipeline_epoch) =
                       bond_get_delta_val(storage.bonds[id], pipeline_epoch)
                /\ read_validator_stake(r2.st, id[2], pipeline_epoch) =
                       read_validator_stake(storage, id[2], pipeline_epoch)
                /\ UnbondEntry(r2.st, id, withdraw_epoch, pipeline_epoch) =
                       UnbondEntry(storage, id, withdraw_epoch, pipeline_epoch) + x

\* An unbond has just undone a bond made in the same epoch: the pair has an
\* unbond entry that starts at the pipeline epoch.
C10_Witness ==
    /\ last.op = "unbond_tokens"
    /\ last.err = "Ok"
    /\ \E id \in BondIds :
          UnbondEntry(storage, id, epoch + pipeline_len + unbonding_len,
                      epoch + pipeline_len) > 0

\* C10 as stated: the unbond entry has face value x.
C10_AsStated ==
    \A id \in BondIds, x \in Amounts, debug \in BOOLEAN :
        LET pipeline_epoch == epoch + pipeline_len
            withdraw_epoch == pipeline_epoch + unbonding_len
            r1 == bond_tokens(storage, id[1], id[2], x, epoch, debug)
            r2 == unbond_tokens(r1.st, id[1], id[2], x, epoch, debug)
        IN  (r1.err = "Ok" /\ r2.err = "Ok") =>
                /\ bond_get_delta_val(r2.st.bonds[id], pipeline_epoch) =
                       bond_get_delta_val(storage.bonds[id], pipeline_epoch)
                /\ read_validator_stake(r2.st, id[2], pipeline_epoch) =
                       read_validator_stake(storage, id[2], pipeline_epoch)
                /\ UnbondEntry(r2.st, id, withdraw_epoch, pipeline_epoch) = x

\* C11: withdraw_tokens called at the current or a later epoch e_c neither pays
\* nor deletes an unbond entry whose withdraw epoch is after e_c; with entries
\* but none matured it succeeds, returns 0 and changes nothing; with no entry
\* it fails with NoUnbondFound.
C11_WithdrawSkipsUnmatured ==
    \A id \in BondIds, e_c \in epoch..LastEpoch :
        LET r == withdraw_tokens(storage, id[1], id[2], e_c)
            entries == DOMAIN storage.unbonds[id]
            unmatured == {k \in entries : k[1] > e_c}
        IN  /\ entries = {} => r.err = "NoUnbondFound" /\ r.st = storage
            /\ r.err = "Ok" =>
                  \A k \in unmatured :
                      /\ k \in DOMAIN r.st.unbonds[id]
                      /\ r.st.unbonds[id][k] = storage.unbonds[id][k]
            /\ (entries # {} /\ unmatured = entries) =>
                  /\ r.err = "Ok"
                  /\ r.ret = 0
                  /\ \A a \in Accounts : Balance(r.st, a) = Balance(storage, a)
                  /\ [r.st EXCEPT !.balance = storage.balance] = storage

\* A withdrawal has just succeeded with 0 while the pair holds an unbond that
\* has not matured.
C11_Witness ==
    /\ last.op = "withdraw_tokens"
    /\ last.err = "Ok"
    /\ last.ret = 0
    /\ \E id \in BondIds : \E k \in DOMAIN storage.unbonds[id] : k[1] > epoch

\* The infraction epochs of the slashes of a validator, enqueued or finalized.
InfractionEpochs(s, v) ==
    {s.slashes[v][i].epoch : i \in 1..Len(s.slashes[v])}
        \cup UNION {{s.enqueued[e][v][i].epoch : i \in 1..Len(s.enqueued[e][v])} :
                       e \in Epochs}

\* C12: a validator is frozen at e_c exactly when it has been slashed and the
\* greatest infraction epoch passed to slash for it, plus unbonding_len + 1, is
\* after e_c; while it is frozen every unbond_tokens on it fails with
\* ValidatorIsFrozen and changes nothing.
C12_FrozenAfterSlash ==
    \A v \in Validators :
        LET slashed == InfractionEpochs(storage, v)
        IN  /\ \A e_c \in epoch..LastEpoch :
                  is_validator_frozen(storage, v, e_c) <=>
                      (slashed # {} /\ MaxOf(slashed) + unbonding_len + 1 > e_c)
            /\ (slashed # {} /\ MaxOf(slashed) + unbonding_len + 1 > epoch) =>
                  \A id \in BondIds, amount \in Amounts, debug \in BOOLEAN :
                      id[2] = v =>
                          LET r == unbond_tokens(storage, id[1], v, amount, epoch,
                                                 debug)
                          IN  r.err = "ValidatorIsFrozen" /\ r.st = storage

\* An unbond has just been refused because its validator is frozen.
C12_Witness ==
    /\ last.op = "unbond_tokens"
    /\ last.err = "ValidatorIsFrozen"
    /\ \E v \in Validators : InfractionEpochs(storage, v) # {}

\* C13: slash called at e_c leaves the validator Jailed and in neither set at
\* every epoch of e_c + 1 .. e_c + pipeline_len, leaves its state and both sets
\* at e_c as they were, and changes no deltas, no total deltas and no balance.
C13_SlashJailsAndRemoves ==
    [][\A validator \in Validators, evidence_epoch \in 0..MaxEpoch,
         slash_type \in SlashTypes :
          (last'.op = "slash" /\ Slash(validator, evidence_epoch, slash_type)) =>
              /\ \A e \in (epoch + 1)..(epoch + pipeline_len) :
                    /\ validator_state_get(storage', validator, e) = "Jailed"
                    /\ validator \notin AddressesIn(storage'.consensus[e])
                    /\ validator \notin AddressesIn(storage'.below_cap[e])
              /\ validator_state_get(storage', validator, epoch) =
                     validator_state_get(storage, validator, epoch)
              /\ storage'.consensus[epoch] = storage.consensus[epoch]
              /\ storage'.below_cap[epoch] = storage.below_cap[epoch]
              /\ storage'.deltas = storage.deltas
              /\ storage'.total_deltas = storage.total_deltas
              /\ storage'.balance = storage.balance]_vars

\* The number of slashes of a validator enqueued for the epochs up to e.
RECURSIVE EnqueuedUpTo(_, _, _)
EnqueuedUpTo(s, v, e) ==
    IF e < 0 THEN 0 ELSE Len(s.enqueued[e][v]) + EnqueuedUpTo(s, v, e - 1)

\* The finalized slashes hold each slash enqueued for an epoch the driver has
\* reached, once, and none enqueued for a later epoch.
FinalizedOnce ==
    \A v \in Validators :
        Len(storage.slashes[v]) = EnqueuedUpTo(storage, v, epoch)

\* slash enqueues the slash with rate 0 under e_i + unbonding_len + 1 and
\* leaves the finalized slashes alone.
SlashEnqueues ==
    \A validator \in Validators, evidence_epoch \in 0..MaxEpoch,
       slash_type \in SlashTypes :
        (last'.op = "slash" /\ Slash(validator, evidence_epoch, slash_type)) =>
            /\ storage'.enqueued =
                   [storage.enqueued EXCEPT
                      ![evidence_epoch + unbonding_len + 1][validator] =
                          Append(@, [epoch |-> evidence_epoch,
                                     type |-> slash_type, rate |-> 0])]
            /\ storage'.slashes = storage.slashes

\* A step appends to the finalized slashes of a validator only when a new epoch
\* begins, and then the slashes enqueued for that epoch, in order, with their
\* infraction epoch and type; the entries already there stay as they are.
FinalizedAppendOnly ==
    \A v \in Validators :
        LET old == storage.slashes[v]
            new == storage'.slashes[v]
            due == IF epoch' = epoch + 1 THEN storage.enqueued[epoch'][v] ELSE <<>>
        IN  /\ Len(new) = Len(old) + Len(due)
            /\ SubSeq(new, 1, Len(old)) = old
            /\ \A i \in 1..Len(due) :
                  /\ new[Len(old) + i].epoch = due[i].epoch
                  /\ new[Len(old) + i].type = due[i].type

\* A slash is enqueued for an epoch of the model that has not begun yet.
SlashPending ==
    \E v \in Validators, e \in (epoch + 1)..MaxEpoch :
        storage.enqueued[e][v] # <<>>

\* C14: a slash is enqueued with rate 0 under e_i + unbonding_len + 1 and is
\* appended to the finalized slashes of its validator exactly once, when the
\* epoch it is enqueued for begins; finalized entries are never removed or
\* modified, and no slash stays enqueued for an epoch that never begins.
C14_SlashFinalizedOnce ==
    /\ [](epoch < MaxEpoch => CanAdvance)
    /\ []FinalizedOnce
    /\ [][SlashEnqueues /\ FinalizedAppendOnly]_vars
    /\ SlashPending ~> ~SlashPending

\* A new epoch has begun and a slash enqueued for it has been finalized.
C14_Witness ==
    /\ last.op = "process_slashes"
    /\ \E v \in Validators :
          /\ storage.enqueued[epoch][v] # <<>>
          /\ Len(storage.slashes[v]) > 0

\* The largest cubic slashing window length considered.
MaxWindow == 2

\* The window of W epochs around an infraction epoch (the epochs that
\* compute_cubic_slash_rate reads when the window length is W).
WindowOf(infraction_epoch, W) ==
    Max2(0, infraction_epoch - W)..(infraction_epoch + W)

\* The infraction epochs for which process_slashes has computed a cubic rate.
RatedInfractionEpochs ==
    {e_i \in 0..(epoch - unbonding_len - 1) :
        \E v \in Validators : storage.enqueued[e_i + unbonding_len + 1][v] # <<>>}

\* No accepted evidence has its infraction epoch in the window, of length up to
\* W, of an infraction epoch whose cubic rate has been computed.
WindowClosed(W) ==
    \A validator \in Validators, evidence_epoch \in 0..MaxEpoch,
       slash_type \in SlashTypes :
        (last'.op = "slash" /\ Slash(validator, evidence_epoch, slash_type)) =>
            \A e_i \in RatedInfractionEpochs :
                evidence_epoch \notin WindowOf(e_i, W)

\* C15: when process_slashes has computed the cubic rate for an infraction
\* epoch e_i, no evidence for an infraction epoch in [e_i - W, e_i + W] is
\* accepted any more, for every cubic slashing window length W.
C15_WindowClosedForEveryLength ==
    [][\A W \in 0..MaxWindow : WindowClosed(W)]_vars

\* The same for the window length of the parameters alone.
WindowClosedForParams ==
    [][WindowClosed(cubic_slashing_window_length)]_vars

\* C16: unjail_validator succeeds only if the validator's state at the pipeline
\* epoch is Jailed; otherwise it fails with NotJailed or NotAValidator and
\* changes nothing, so that a second unjail, sent before the first has taken
\* effect, is rejected.
C16_UnjailOnlyJailedAtPipeline ==
    [][\A validator \in Validators :
          (last'.op = "unjail_validator" /\ Unjail(validator)) =>
              \/ validator_state_get(storage, validator, epoch + pipeline_len)
                     = "Jailed"
              \/ /\ last'.err \in {"NotJailed", "NotAValidator"}
                 /\ storage' = storage]_vars

\* C17: unjail_validator called at e_c on a validator that is jailed at e_c
\* fails with NotEligible and changes nothing when e_c is before the greatest
\* infraction epoch passed to slash for it plus unbonding_len, and is accepted
\* from that epoch on; a later infraction epoch moves that epoch later.
C17_UnjailEligibility ==
    \A v \in Validators, e_c \in epoch..MaxEpoch :
        validator_state_get(storage, v, e_c) = "Jailed" =>
            LET slashed == InfractionEpochs(storage, v)
                r == unjail_validator(storage, v, e_c)
            IN  /\ slashed # {}
                /\ IF e_c < MaxOf(slashed) + unbonding_len
                   THEN r.err = "NotEligible" /\ r.st = storage
                   ELSE r.err = "Ok"

\* An unjail has just been refused as not eligible, for a validator slashed for
\* two infraction epochs, at an epoch where the earlier one alone would have
\* let it pass.
C17_Witness ==
    /\ last.op = "unjail_validator"
    /\ last.err = "NotEligible"
    /\ \E v \in Validators :
          LET slashed == InfractionEpochs(storage, v)
          IN  /\ validator_state_get(storage, v, epoch) = "Jailed"
              /\ slashed # {}
              /\ MinOf(slashed) + unbonding_len <= epoch
              /\ epoch < MaxOf(slashed) + unbonding_len

\* Is the validator in the consensus or in the below-capacity set at epoch e?
InASet(s, v, e) ==
    v \in AddressesIn(s.consensus[e]) \cup AddressesIn(s.below_cap[e])

\* A bond to a validator that is jailed at the pipeline epoch succeeds when
\* the source may bond and has the tokens; it leaves both sets as they are at
\* every epoch and adds the amount to the stake of the validator and to the
\* total stake at the pipeline epoch.
BondToJailed ==
    \A id \in BondIds, amount \in Amounts, debug \in BOOLEAN :
        LET source == id[1]
            validator == id[2]
            pipeline_epoch == epoch + pipeline_len
        IN  (/\ last'.op = "bond_tokens"
             /\ Bond(source, validator, amount, debug)
             /\ validator_state_get(storage, validator, pipeline_epoch) = "Jailed") =>
                /\ (/\ source = validator \/ ~is_validator(storage, source, pipeline_epoch)
                    /\ storage.balance[source] # NoBalance
                    /\ storage.balance[source] >= amount) => last'.err = "Ok"
                /\ last'.err = "Ok" =>
                      /\ storage'.consensus = storage.consensus
                      /\ storage'.below_cap = storage.below_cap
                      /\ read_validator_stake(storage', validator, pipeline_epoch)
                           = read_validator_stake(storage, validator, pipeline_epoch)
                               + amount
                      /\ read_total_stake(storage', pipeline_epoch)
                           = read_total_stake(storage, pipeline_epoch) + amount

\* A validator that is jailed at an epoch of the lookahead window and is out
\* of both sets there stays out of them unless it is unjailed.
JailedStaysOut ==
    \A v \in Validators, e \in epoch'..(epoch + pipeline_len) :
        (/\ validator_state_get(storage, v, e) = "Jailed"
         /\ ~InASet(storage, v, e)
         /\ ~(last'.op = "unjail_validator" /\ last'.err = "Ok")) =>
            ~InASet(storage', v, e)

\* A successful unjail stores the validator, at the pipeline epoch, under the
\* stake it has accrued there.
UnjailPlacesByStake ==
    \A validator \in Validators :
        (/\ last'.op = "unjail_validator"
         /\ Unjail(validator)
         /\ last'.err = "Ok") =>
            LET pipeline_epoch == epoch + pipeline_len
                stake == read_validator_stake(storage, validator, pipeline_epoch)
            IN  \E x \in storage'.consensus[pipeline_epoch]
                            \cup storage'.below_cap[pipeline_epoch] :
                    x.addr = validator /\ x.stake = stake

\* C18: bond_tokens to a validator that is jailed at the pipeline epoch
\* succeeds, leaves both validator sets unchanged at every epoch and adds the
\* amount to the validator's stake and to the total stake at the pipeline
\* epoch; the validator stays out of both sets until a successful unjail,
\* which stores it under its accrued stake.
C18_BondToJailed ==
    [][BondToJailed /\ JailedStaysOut /\ UnjailPlacesByStake]_vars

\* C19: become_validator with a consensus key that is in use, by a genesis
\* validator or by an earlier become_validator, fails without changing the
\* state; a key in use always resolves to a validator, and to the same one
\* after every step, so no key is ever registered for two addresses.
C19_ConsensusKeyUnique ==
    /\ [](\A k \in Keys : k \in storage.consensus_keys <=> storage.raw_hash[k] # NoAddress)
    /\ [][/\ \A address \in Validators, consensus_key \in NewKeys :
               (/\ last'.op = "become_validator"
                /\ BecomeValidator(address, consensus_key)
                /\ consensus_key \in storage.consensus_keys) =>
                   last'.err # "Ok" /\ storage' = storage
          /\ \A k \in storage.consensus_keys :
               storage'.raw_hash[k] = storage.raw_hash[k]]_vars

\* become_validator has just been refused for a key that an earlier
\* become_validator registered: the genesis had two keys, k4 is the third.
C19_Witness ==
    /\ last.op = "become_validator"
    /\ last.err = "ConsensusKeyInUse"
    /\ Cardinality(storage.consensus_keys) = 3
    /\ storage.raw_hash["k4"] # NoAddress

\* C20: at every epoch of the lookahead window the consensus set is the top K
\* by stake: the stake (the sum of the deltas) of every validator in
\* Consensus[e] is at least the stake of every validator in BelowCapacity[e].
C20_ConsensusIsTopK ==
    \A e \in epoch..(epoch + pipeline_len) :
        \A c \in AddressesIn(storage.consensus[e]),
           b \in AddressesIn(storage.below_cap[e]) :
            read_validator_stake(storage, c, e) >= read_validator_stake(storage, b, e)

\* The Tendermint voting power of a validator at an epoch.
VotingPower(s, v, e) ==
    into_tm_voting_power(tm_votes_per_token, read_validator_stake(s, v, e))

\* The updates expected for the next epoch of e_c.
ExpectedUpdates(s, e_c) ==
    {[kind |-> "Consensus",
      consensus_key |-> validator_consensus_key_get(s, v, e_c + 1),
      bonded_stake |-> read_validator_stake(s, v, e_c + 1)] :
        v \in {v \in AddressesIn(s.consensus[e_c + 1]) :
                 /\ ~(/\ validator_state_get(s, v, e_c) = "Consensus"
                      /\ VotingPower(s, v, e_c) = VotingPower(s, v, e_c + 1))
                 /\ ~(VotingPower(s, v, e_c) = 0 /\ VotingPower(s, v, e_c + 1) = 0)}}
    \cup
    {[kind |-> "Deactivated",
      consensus_key |-> validator_consensus_key_get(s, v, e_c + 1),
      bonded_stake |-> 0] :
        v \in {v \in AddressesIn(s.below_cap[e_c + 1]) :
                 /\ VotingPower(s, v, e_c) # 0
                 /\ validator_state_get(s, v, e_c) = "Consensus"}}

\* C21: validator_set_update_tendermint(e_c) emits a Consensus update, with
\* the key and the bonded stake at e_c + 1, for each validator of
\* Consensus[e_c + 1] except those in state Consensus at e_c with the same
\* voting power and those whose previous and current voting powers are 0, a
\* Deactivated update for each validator of BelowCapacity[e_c + 1] that had a
\* non-zero voting power and the state Consensus at e_c, and nothing else.
C21_TendermintUpdates ==
    LET r == validator_set_update_tendermint(storage, epoch)
    IN  r.err = "Ok" /\ r.updates = ExpectedUpdates(storage, epoch)

\* C22: the storage that unbond_tokens, process_slashes and
\* copy_validator_sets_and_positions leave behind is the same for every
\* iteration order of their in-memory hash maps: from every reachable state,
\* each of the three, run with any order of the validators with enqueued
\* slashes, of the bond start epochs and of the copied entries, gives the
\* result of the run with the order the model takes (with fewer than two
\* slashed validators or bond start epochs there is one order only).
SlashedAt(s, e) == {v \in Validators : s.enqueued[e][v] # <<>>}
ProcessSlashesOrderFree ==
    Cardinality(SlashedAt(storage, epoch + 1)) >= 2 =>
        \A debug \in BOOLEAN : \A o \in Orders(Validators) :
            process_slashes_in(storage, epoch + 1, debug, o)
                = process_slashes(storage, epoch + 1, debug)
UnbondOrderFree ==
    \A id \in BondIds :
        Cardinality(DOMAIN storage.bonds[id]) >= 2 =>
            \A amount \in 1..(MaxAmount + 1) : \A debug \in BOOLEAN :
                \A o \in Orders(DOMAIN storage.bonds[id]) :
                    unbond_tokens_in(storage, id[1], id[2], amount, epoch, debug, o)
                        = unbond_tokens(storage, id[1], id[2], amount, epoch, debug)
CopyOrderFree ==
    \A iter \in CopyOrders(storage, epoch + 1 + pipeline_len) :
        copy_validator_sets_and_positions_in(storage, epoch + 1,
                                             epoch + 1 + pipeline_len, iter)
            = copy_validator_sets_and_positions(storage, epoch + 1,
                                                epoch + 1 + pipeline_len)
UnbondOfTwoBonds ==
    \E id \in BondIds : \E amount \in 1..(MaxAmount + 1) :
        LET r == unbond_tokens(storage, id[1], id[2], amount, epoch, FALSE)
        IN  /\ r.err = "Ok"
            /\ Cardinality({k \in DOMAIN r.st.unbonds[id] :
                               k \notin DOMAIN storage.unbonds[id]}) >= 2

\* C23: insert_validator_into_validator_set(address, stake) at the pipeline
\* epoch, for a validator in neither set there: with fewer than
\* max_validator_slots consensus validators it adds the validator to
\* Consensus[stake]; otherwise, when stake is strictly greater than the smallest
\* consensus stake, the last-positioned validator of that bucket moves to the
\* below-capacity set under the same stake with state BelowCapacity and the new
\* validator is added to Consensus[stake]; otherwise the new validator is added
\* to BelowCapacity[stake] and the consensus set stays as it is.
AddedTo(before, after, address, stake) ==
    \E x \in after \ before :
        x.addr = address /\ x.stake = stake /\ after = before \cup {x}
InsertPlaces(s, address, stake, current_epoch) ==
    LET e == current_epoch + pipeline_len
        t == insert_validator_into_validator_set(s, address, stake, current_epoch,
                                                 pipeline_len)
        C == s.consensus[e]
        B == s.below_cap[e]
        min_c == MinOf({x.stake : x \in C})
        incumbent == CHOOSE x \in C :
            x.stake = min_c /\ \A y \in C : y.stake = min_c => y.pos <= x.pos
    IN  IF Cardinality(C) < max_validator_slots
        THEN /\ AddedTo(C, t.consensus[e], address, stake)
             /\ t.below_cap[e] = B
             /\ validator_state_get(t, address, e) = "Consensus"
        ELSE IF stake > min_c
        THEN /\ AddedTo(C \ {incumbent}, t.consensus[e], address, stake)
             /\ AddedTo(B, t.below_cap[e], incumbent.addr, min_c)
             /\ validator_state_get(t, incumbent.addr, e) = "BelowCapacity"
             /\ validator_state_get(t, address, e) = "Consensus"
        ELSE /\ AddedTo(B, t.below_cap[e], address, stake)
             /\ t.consensus[e] = C
             /\ validator_state_get(t, address, e) = "BelowCapacity"
C23_InsertIntoValidatorSet ==
    \A address \in Validators : \A stake \in 0..MaxStake :
        ~InASet(storage, address, epoch + pipeline_len)
            => InsertPlaces(storage, address, stake, epoch)
\* unjail_validator has inserted a validator that took the slot of a consensus
\* validator, which is below capacity now.
C23_Witness ==
    /\ last.op = "unjail_validator" /\ last.err = "Ok"
    /\ Cardinality(storage.consensus[epoch + pipeline_len]) = max_validator_slots
    /\ storage.below_cap[epoch + pipeline_len] # {}
    /\ \E v \in Validators :
          /\ validator_state_get(storage, v, epoch + pipeline_len - 1) = "Jailed"
          /\ v \in AddressesIn(storage.consensus[epoch + pipeline_len])

\* C24: update_validator_set for a validator V placed at the pipeline epoch e,
\* with the new stake s': when V is in Consensus[e] and s' is below the largest
\* below-capacity stake, the first-positioned validator of that bucket moves to
\* the consensus set under the same stake and V to BelowCapacity[s'], otherwise
\* V moves to Consensus[s']; when V is in BelowCapacity[e] and s' is strictly
\* above the smallest consensus stake, the last-positioned validator of that
\* bucket moves to the below-capacity set under the same stake and V to
\* Consensus[s'], otherwise V moves to BelowCapacity[s']; the states at e of
\* the validators involved follow their sets, and the sets of the epochs
\* before e stay as they are.
EntriesOf(set, address) == {x \in set : x.addr = address}
StateFollowsSet(s, v, e) ==
    validator_state_get(s, v, e) =
        IF v \in AddressesIn(s.consensus[e]) THEN "Consensus" ELSE "BelowCapacity"
UpdatePlaces(s, V, token_change, current_epoch, debug) ==
    LET e == current_epoch + pipeline_len
        r == update_validator_set(s, V, token_change, current_epoch, debug)
        t == r.st
        C == s.consensus[e]
        B == s.below_cap[e]
        s_post == read_validator_stake(s, V, e) + token_change
        max_bc == MaxOf({x.stake : x \in B})
        first == CHOOSE x \in B :
            x.stake = max_bc /\ \A y \in B : y.stake = max_bc => x.pos <= y.pos
        min_c == MinOf({x.stake : x \in C})
        last_c == CHOOSE x \in C :
            x.stake = min_c /\ \A y \in C : y.stake = min_c => y.pos <= x.pos
    IN  /\ r.err = "Ok"
        /\ \A x \in 0..(e - 1) :
              t.consensus[x] = s.consensus[x] /\ t.below_cap[x] = s.below_cap[x]
        /\ StateFollowsSet(t, V, e)
        /\ IF V \in AddressesIn(C)
           THEN IF B # {} /\ s_post < max_bc
                THEN /\ AddedTo(C \ EntriesOf(C, V), t.consensus[e],
                                first.addr, max_bc)
                     /\ AddedTo(B \ {first}, t.below_cap[e], V, s_post)
                     /\ StateFollowsSet(t, first.addr, e)
                ELSE /\ AddedTo(C \ EntriesOf(C, V), t.consensus[e], V, s_post)
                     /\ t.below_cap[e] = B
           ELSE IF C # {} /\ s_post > min_c
                THEN /\ AddedTo(B \ EntriesOf(B, V), t.below_cap[e],
                                last_c.addr, min_c)
                     /\ AddedTo(C \ {last_c}, t.consensus[e], V, s_post)
                     /\ StateFollowsSet(t, last_c.addr, e)
                ELSE /\ AddedTo(B \ EntriesOf(B, V), t.below_cap[e], V, s_post)
                     /\ t.consensus[e] = C
StakeChanges(s, V, e) ==
    {c \in (0 - MaxStake)..MaxAmount :
        c # 0 /\ read_validator_stake(s, V, e) + c >= 0}
C24_UpdateValidatorSet ==
    \A V \in Validators : \A debug \in BOOLEAN :
        InASet(storage, V, epoch + pipeline_len) =>
            \A c \in StakeChanges(storage, V, epoch + pipeline_len) :
                UpdatePlaces(storage, V, c, epoch, debug)
\* The same for the states in which every validator is stored once, under its
\* stake.
SetsInOrder(s, e) ==
    \A x \in s.consensus[e] \cup s.below_cap[e] :
        /\ x.stake = read_validator_stake(s, x.addr, e)
        /\ s.positions[e][x.addr] = x.pos
        /\ Cardinality(EntriesOf(s.consensus[e] \cup s.below_cap[e], x.addr)) = 1
        /\ EntriesOf(s.consensus[e], x.addr) = {}
              \/ EntriesOf(s.below_cap[e], x.addr) = {}
UpdateValidatorSetInOrder ==
    SetsInOrder(storage, epoch + pipeline_len) => C24_UpdateValidatorSet

\* The slash of a validator at e + offset as the claim C25 gives it: for each of
\* the slashes that process_slashes(e) finalizes for it (the slashes that t
\* holds and s does not), rate * (s - u_offset), with s the stake at the
\* infraction epoch e_i = e - unbonding_len - 1 and u_offset the amount, after
\* earlier slashes, of the unbond records of the epochs e_i + 1 .. e + offset
\* that started at or before e_i.
RECURSIVE SumOver(_, _)
SumOver(f, D) ==
    IF D = {} THEN 0
    ELSE LET x == CHOOSE y \in D : TRUE IN f[x] + SumOver(f, D \ {x})
UnbondedSince(s, v, e, offset) ==
    unbonded_between(s, v, e - unbonding_len, e + offset, e - unbonding_len - 1)
SlashOf(s, t, v, e, offset) ==
    LET stake == read_validator_stake(s, v, e - unbonding_len - 1)
        u == UnbondedSince(s, v, e, offset)
        finalized == SubSeq(t.slashes[v], Len(s.slashes[v]) + 1, Len(t.slashes[v]))
    IN  SumSeq([i \in 1..Len(finalized) |->
                   decimal_mult_amount(finalized[i].rate, Max2(stake - u, 0))])
StakeLowered(s, t, v, e, offset) ==
    read_validator_stake(t, v, e + offset) =
        read_validator_stake(s, v, e + offset) - SlashOf(s, t, v, e, offset)
\* C25 as stated, for the validators with one slash enqueued for e: the stake
\* at e + offset goes down by rate * (s - u_offset), and the total stake by the
\* sum of these when every slashed validator has one slash.
SlashReflected(s, e, debug) ==
    LET r == process_slashes(s, e, debug)
        t == r.st
    IN  r.err = "Ok" =>
            \A offset \in 0..(pipeline_len - 1) :
                /\ \A v \in Validators :
                      Len(s.enqueued[e][v]) = 1 => StakeLowered(s, t, v, e, offset)
                /\ (\A v \in Validators : Len(s.enqueued[e][v]) <= 1) =>
                      read_total_stake(t, e + offset) =
                          read_total_stake(s, e + offset)
                              - SumOver([v \in Validators |->
                                            SlashOf(s, t, v, e, offset)], Validators)
C25_SlashReflectedInStake ==
    \A debug \in BOOLEAN : SlashReflected(storage, epoch + 1, debug)

\* C25, amended: the stake of a validator at e + offset goes down by the sum of
\* rate * (s - u_offset) over its slashes finalized at e, provided that at
\* every offset this sum exceeds neither the stake the validator has at
\* e + offset before the call nor its stake s at the infraction epoch; the
\* total stake at e + offset goes down by what the stakes of the validators
\* at e + offset go down.
NothingClamped(s, t, v, e) ==
    \A offset \in 0..(pipeline_len - 1) :
        /\ SlashOf(s, t, v, e, offset) <= read_validator_stake(s, v, e + offset)
        /\ SlashOf(s, t, v, e, offset)
              <= read_validator_stake(s, v, e - unbonding_len - 1)
SlashReflectedUnlessClamped(s, e, debug) ==
    LET r == process_slashes(s, e, debug)
        t == r.st
    IN  r.err = "Ok" =>
            \A offset \in 0..(pipeline_len - 1) :
                /\ \A v \in Validators :
                      NothingClamped(s, t, v, e) => StakeLowered(s, t, v, e, offset)
                /\ read_total_stake(t, e + offset) =
                      read_total_stake(s, e + offset)
                          - SumOver([v \in Validators |->
                                        read_validator_stake(s, v, e + offset)
                                        - read_validator_stake(t, v, e + offset)],
                                    Validators)
C25_SlashReflectedUnlessClamped ==
    \A debug \in BOOLEAN : SlashReflectedUnlessClamped(storage, epoch + 1, debug)
\* A slash is about to be processed for a validator that unbonded part of the
\* slashed stake since the infraction: it loses a part of its stake only.
C25_Witness ==
    LET e == epoch + 1
        r == process_slashes(storage, e, FALSE)
    IN  /\ e >= unbonding_len + 1 /\ r.err = "Ok"
        /\ \E v \in Validators :
              /\ NothingClamped(storage, r.st, v, e)
              /\ UnbondedSince(storage, v, e, 0) > 0
              /\ SlashOf(storage, r.st, v, e, 0) > 0
\* The case of the example of C25: an unbond that took effect at the
\* infraction epoch is in the stake at the infraction epoch, not in u_offset.
UnbondAtInfractionEpoch ==
    LET e == epoch + 1
        e_i == e - unbonding_len - 1
        r == process_slashes(storage, e, FALSE)
    IN  /\ e_i >= 0 /\ r.err = "Ok"
        /\ \E v \in Validators :
              /\ storage.unbond_records[v][e_i] # <<>>
              /\ UnbondedSince(storage, v, e, pipeline_len - 1) = 0
              /\ SlashOf(storage, r.st, v, e, 0) > 0

\* C26: every slash that process_slashes(e) finalizes gets the rate
\* min(1, max(base rate of its type, 9 * f^2)), where f is the sum, over the
\* epochs x of the window [e_i - W, e_i + W] around the infraction epoch
\* e_i = e - unbonding_len - 1 (from epoch 0 at the earliest), of the stake at x
\* of the validators with slashes enqueued for the infraction epoch x, divided
\* by the total stake at x.
InfractingValidators(s, x) ==
    IF x + unbonding_len + 1 \in Epochs
    THEN SlashedAt(s, x + unbonding_len + 1) ELSE {}
StakeFraction(s, x) ==
    DecDiv(SumOver([v \in Validators |-> read_validator_stake(s, v, x)],
                   InfractingValidators(s, x)),
           read_total_stake(s, x))
FinalRate(s, e_i, type) ==
    LET window == {x \in Epochs : /\ x >= e_i - cubic_slashing_window_length
                                  /\ x <= e_i + cubic_slashing_window_length}
        f == SumOver([x \in window |-> StakeFraction(s, x)], window)
    IN  Min2(DecOne, Max2(get_slash_rate(type), DecMul(DecMul(9 * DecOne, f), f)))
RatesAsClaimed(s, e, debug) ==
    LET r == process_slashes(s, e, debug)
        Finalized(v) ==
            SubSeq(r.st.slashes[v], Len(s.slashes[v]) + 1, Len(r.st.slashes[v]))
    IN  r.err = "Ok" =>
            \A v \in Validators : \A i \in 1..Len(Finalized(v)) :
                Finalized(v)[i].rate =
                    FinalRate(s, e - unbonding_len - 1, Finalized(v)[i].type)
C26_FinalRate ==
    \A debug \in BOOLEAN : RatesAsClaimed(storage, epoch + 1, debug)
\* The same for the states in which no validator has two slashes enqueued for
\* one infraction epoch.
OneSlashPerInfraction(s) ==
    \A e \in Epochs : \A v \in Validators : Len(s.enqueued[e][v]) <= 1
FinalRateOfSingleSlashes ==
    OneSlashPerInfraction(storage) => C26_FinalRate

\* C27: in one call of process_slashes(e), the amount slashed from a validator
\* over the offsets, which is what its stake at the last offset
\* e + pipeline_len - 1 goes down, never exceeds its stake at the infraction
\* epoch, also when several of its slashes are processed together; the amount
\* that goes from the PoS account to the slash pool is the sum of these amounts
\* over the validators, and is what the total stake at the last offset goes down.
BalanceOf(s, a) == IF s.balance[a] = NoBalance THEN 0 ELSE s.balance[a]
SlashedFrom(s, t, v, e) ==
    read_validator_stake(s, v, e + pipeline_len - 1)
        - read_validator_stake(t, v, e + pipeline_len - 1)
SlashedInTotal(s, t, e) ==
    SumOver([v \in Validators |-> SlashedFrom(s, t, v, e)], Validators)
SlashedWithinStake(s, e, debug) ==
    LET r == process_slashes(s, e, debug)
        t == r.st
    IN  r.err = "Ok" /\ e >= unbonding_len + 1 =>
            /\ \A v \in Validators :
                  /\ SlashedFrom(s, t, v, e) >= 0
                  /\ SlashedFrom(s, t, v, e)
                        <= read_validator_stake(s, v, e - unbonding_len - 1)
            /\ BalanceOf(t, SLASH_POOL_ADDRESS) - BalanceOf(s, SLASH_POOL_ADDRESS)
                  = SlashedInTotal(s, t, e)
            /\ BalanceOf(s, ADDRESS) - BalanceOf(t, ADDRESS) = SlashedInTotal(s, t, e)
            /\ read_total_stake(s, e + pipeline_len - 1)
                  - read_total_stake(t, e + pipeline_len - 1)
                  = SlashedInTotal(s, t, e)
            /\ \A a \in Accounts \ {ADDRESS, SLASH_POOL_ADDRESS} :
                  t.balance[a] = s.balance[a]
C27_SlashedWithinStake ==
    \A debug \in BOOLEAN : SlashedWithinStake(storage, epoch + 1, debug)
\* Two slashes of one validator are about to be processed together with rates
\* that add up to more than 1: the validator loses its stake at the infraction
\* epoch, once.
C27_Witness ==
    LET e == epoch + 1
        r == process_slashes(storage, e, FALSE)
    IN  /\ e >= unbonding_len + 1 /\ r.err = "Ok"
        /\ \E v \in Validators :
              /\ Len(storage.enqueued[e][v]) >= 2
              /\ SlashOf(storage, r.st, v, e, 0)
                    > read_validator_stake(storage, v, e - unbonding_len - 1)
              /\ SlashedFrom(storage, r.st, v, e) > 0
              /\ SlashedFrom(storage, r.st, v, e)
                    = read_validator_stake(storage, v, e - unbonding_len - 1)

\* C28: the sum of the deltas of every validator up to any epoch, and the sum
\* of the total deltas, is never negative: in every state that bonds, unbonds,
\* slashes, unjails, the other transactions and the epoch changes lead to, and
\* at the epochs of the lookahead window after one more unbond or one more
\* process_slashes from there (the deltas of the other epochs stay as they are).
NonNegative(s) ==
    \A e \in Epochs :
        /\ get_sum(s.total_deltas, e) >= 0
        /\ \A v \in Validators : get_sum(s.deltas[v], e) >= 0
NonNegativeFrom(s, current_epoch) ==
    \A e \in current_epoch..(current_epoch + pipeline_len) :
        /\ get_sum(s.total_deltas, e) >= 0
        /\ \A v \in Validators : get_sum(s.deltas[v], e) >= 0
C28_StakeNeverNegative ==
    /\ NonNegative(storage)
    /\ \A debug \in BOOLEAN :
          NonNegativeFrom(process_slashes(storage, epoch + 1, debug).st, epoch + 1)
    /\ \A id \in BondIds : \A amount \in 1..(MaxAmount + 1) :
          NonNegativeFrom(
              unbond_tokens(storage, id[1], id[2], amount, epoch, FALSE).st, epoch)
\* A slash is about to be processed that is greater than what the validator
\* has left at the processing epoch: its stake goes to 0.
C28_Witness ==
    LET e == epoch + 1
        r == process_slashes(storage, e, FALSE)
    IN  /\ e >= unbonding_len + 1 /\ r.err = "Ok"
        /\ \E v \in Validators :
              /\ storage.enqueued[e][v] # <<>>
              /\ read_validator_stake(storage, v, e) > 0
              /\ SlashOf(storage, r.st, v, e, 0) > read_validator_stake(storage, v, e)
              /\ read_validator_stake(r.st, v, e) = 0

\* ------------------------------------------------------------------ C29
MaxUnbondingLen == 4

\* The part the k-th of the slashes q, which are in ascending infraction
\* epoch, takes: its rate of what the slashes more than len epochs before it
\* have left of the amount.
RECURSIVE SlashedPart(_, _, _, _)
SlashedPart(len, amount, q, k) ==
    LET earlier == {j \in 1..(k - 1) : q[j].epoch + len < q[k].epoch}
        parts == [j \in earlier |-> SlashedPart(len, amount, q, j)]
    IN  decimal_mult_amount(q[k].rate, Max2(0, amount - SumOver(parts, earlier)))
AmountLeft(len, amount, q) ==
    LET parts == [k \in 1..Len(q) |-> SlashedPart(len, amount, q, k)]
    IN  Max2(0, amount - SumOver(parts, 1..Len(q)))
\* C29: get_slashed_amount takes the slashes in ascending infraction epoch,
\* in whatever order they are given: a slash at most unbonding_len after an
\* earlier one takes its rate of the same amount as the earlier one, a slash
\* more than unbonding_len after an earlier one takes its rate of what the
\* earlier one has left; the result is the amount minus the parts taken, 0
\* when they exceed it, and never more than the amount.  Two slashes of 5% at
\* epochs 4 and 6 leave 900 of 1000 when unbonding_len is 4.
C29_GetSlashedAmount ==
    /\ \A v \in Validators, amount \in PayoutAmounts, len \in 1..MaxUnbondingLen :
          LET q == storage.slashes[v]
              Left(left) ==
                  /\ left <= amount
                  /\ \A order \in Orders(1..Len(q)) :
                        get_slashed_amount_with([unbonding_len |-> len], amount,
                                                [i \in 1..Len(q) |-> q[order[i]]])
                            = left
          IN  Let(AmountLeft(len, amount, q), Left)
    /\ get_slashed_amount_with([unbonding_len |-> 4], 1000,
           <<[epoch |-> 4, type |-> "DuplicateVote", rate |-> 50],
             [epoch |-> 6, type |-> "DuplicateVote", rate |-> 50]>>) = 900
\* A withdrawal has paid an unbond of 1000 that three slashes of 5% reduce to
\* 855: the second takes its part of the same 1000 as the first, the third
\* its part of the 900 the two have left.
C29_Witness ==
    /\ last.op = "withdraw_tokens" /\ last.err = "Ok" /\ last.ret = 855
    /\ \E v \in Validators :
          LET q == storage.slashes[v]
          IN  /\ Len(q) = 3
              /\ \A i \in 1..3 : q[i].rate = duplicate_vote_min_slash_rate
              /\ q[1].epoch + unbonding_len >= q[2].epoch
              /\ q[2].epoch + unbonding_len < q[3].epoch
              /\ AmountLeft(unbonding_len, DecOne, q) = last.ret

\* ------------------------------------------------------------------ C30
\* The finalized slashes of the validator that reduce the unbond with the key
\* k = (withdraw_epoch, start_epoch): those with an infraction epoch from the
\* start of the bond to just before the epoch at which the unbond took effect.
SlashesOfUnbond(s, validator, k) ==
    LET took_effect == k[1] - unbonding_len
        Reduces(x) == x.epoch >= k[2] /\ x.epoch < took_effect
    IN  SelectSeq(s.slashes[validator], Reduces)
\* C30: withdraw_tokens pays, for each unbond whose withdraw epoch has come,
\* what get_slashed_amount leaves of its amount under the finalized slashes of
\* the validator with start_epoch <= slash.epoch < withdraw_epoch -
\* unbonding_len, and nothing for the other unbonds; an unbond that has only
\* slashes before its bond started, or at or after the epoch at which it took
\* effect, is paid in full.
C30_WithdrawPayout ==
    \A id \in BondIds :
        LET unbonds == storage.unbonds[id]
            matured == {k \in DOMAIN unbonds : k[1] <= epoch}
            paid == [k \in matured |->
                        get_slashed_amount(unbonds[k],
                                           SlashesOfUnbond(storage, id[2], k))]
            left == [k \in matured |->
                        AmountLeft(unbonding_len, unbonds[k],
                                   SlashesOfUnbond(storage, id[2], k))]
            Paid(r) ==
                /\ r.err = "Ok"
                /\ r.ret = SumOver(paid, matured)
                /\ r.ret = SumOver(left, matured)
                /\ (\A k \in matured : SlashesOfUnbond(storage, id[2], k) = <<>>)
                       => r.ret = SumOver(unbonds, matured)
        IN  DOMAIN unbonds # {}
                => Let(withdraw_tokens(storage, id[1], id[2], epoch), Paid)
\* A withdrawal has paid 950 for the one unbond of 1000 the bond had: of the
\* finalized slashes of the validator, one of 5% has reduced it and one of
\* 100% has not.
C30_Witness ==
    /\ last.op = "withdraw_tokens" /\ last.err = "Ok" /\ last.ret = 950
    /\ storage.balance[ADDRESS] = 50
    /\ \E id \in BondIds :
          /\ storage.balance[id[1]] = last.ret
          /\ DOMAIN storage.unbonds[id] = {}
          /\ \E i, j \in 1..Len(storage.slashes[id[2]]) :
                /\ storage.slashes[id[2]][i].rate = duplicate_vote_min_slash_rate
                /\ storage.slashes[id[2]][j].rate = DecOne

\* ------------------------------------------------------------------ C31
OthersIn(set, validator) == {x \in set : x.addr # validator}
\* The entry slash promotes: the first position of the greatest stake.
FirstOfMaxBucket(set) ==
    CHOOSE x \in set :
        \A y \in set : y.stake < x.stake \/ (y.stake = x.stake /\ y.pos >= x.pos)
SlashPromotes(validator) ==
    LET p == epoch + pipeline_len
        below == storage.below_cap[p]
        removed == /\ validator \in AddressesIn(storage.consensus[p])
                   /\ validator \notin AddressesIn(storage'.consensus[p])
        Promoted(first) ==
            /\ \E x \in storage'.consensus[p] :
                  x.addr = first.addr /\ x.stake = first.stake
            /\ storage'.below_cap[p] = below \ {first}
            /\ validator_state_get(storage', first.addr, p) = "Consensus"
            /\ Cardinality(storage'.consensus[p]) =
                   Cardinality(storage.consensus[p])
    IN  (removed /\ below # {}) => Promoted(FirstOfMaxBucket(below))
SlashMovesNoOther(validator) ==
    LET p == epoch + pipeline_len
    IN  validator_state_get(storage, validator, p) \in {"BelowCapacity", "Jailed"}
            => \A e \in (epoch + 1)..p :
                  /\ OthersIn(storage'.consensus[e], validator) =
                         OthersIn(storage.consensus[e], validator)
                  /\ OthersIn(storage'.below_cap[e], validator) =
                         OthersIn(storage.below_cap[e], validator)
                  /\ \A v \in Validators \ {validator} :
                        validator_state_get(storage', v, e) =
                            validator_state_get(storage, v, e)
\* C31: when slash removes the validator from the consensus set of the
\* pipeline epoch and the below-capacity set of that epoch is not empty, the
\* validator at the first position of the greatest stake of the below-capacity
\* set moves to the consensus set of that epoch, in state Consensus, and the
\* consensus set keeps its size; when the slashed validator is BelowCapacity
\* or Jailed at the pipeline epoch, no other validator is moved.
C31_SlashPromotes ==
    [][\A validator \in Validators, evidence_epoch \in 0..MaxEpoch,
         slash_type \in SlashTypes :
          (last'.op = "slash" /\ Slash(validator, evidence_epoch, slash_type)) =>
              SlashPromotes(validator) /\ SlashMovesNoOther(validator)]_vars

\* ------------------------------------------------------------------ C32
\* What an unbond of amount takes from the bond of start epoch e of bonds:
\* what the bonds of the later start epochs leave of the amount, and no more
\* than the bond holds.
TakenFrom(bonds, amount, e) ==
    LET newer == {x \in DOMAIN bonds : x > e}
    IN  Min2(bonds[e], Max2(0, amount - SumOver(bonds, newer)))
NewestFirst(s, t, id, amount, current_epoch) ==
    LET bonds == s.bonds[id]
        withdraw_epoch == current_epoch + pipeline_len + unbonding_len
        Before(k) == IF k \in DOMAIN s.unbonds[id] THEN s.unbonds[id][k] ELSE 0
        taken == [e \in DOMAIN bonds |-> TakenFrom(bonds, amount, e)]
    IN  /\ DOMAIN t.bonds[id] = DOMAIN bonds
        /\ \A e \in DOMAIN bonds :
              /\ t.bonds[id][e] = bonds[e] - taken[e]
              /\ taken[e] > 0 =>
                    /\ <<withdraw_epoch, e>> \in DOMAIN t.unbonds[id]
                    /\ t.unbonds[id][<<withdraw_epoch, e>>] =
                           Before(<<withdraw_epoch, e>>) + taken[e]
              /\ \A newer \in DOMAIN bonds :
                    (newer > e /\ t.bonds[id][e] < bonds[e]) =>
                        t.bonds[id][newer] = 0
        /\ \A k \in DOMAIN t.unbonds[id] :
              ~(k[1] = withdraw_epoch /\ k[2] \in DOMAIN bonds /\ taken[k[2]] > 0)
                  => t.unbonds[id][k] = Before(k)
        /\ DOMAIN s.unbonds[id] \subseteq DOMAIN t.unbonds[id]
        /\ SumOver(taken, DOMAIN bonds) = amount
\* C32: unbond_tokens takes the amount from the bonds of the pair newest
\* first: from each bond, in descending start epoch, the smaller of the bond
\* and what is still to unbond; each part taken is added to the unbond under
\* (e_c + pipeline_len + unbonding_len, start epoch of the bond); a bond is
\* reduced only when every newer bond is used up, and the parts add up to the
\* amount.
C32_UnbondNewestFirst ==
    \A id \in BondIds, amount \in 1..(MaxAmount + 1), debug \in BOOLEAN :
        LET Taken(r) ==
                r.err = "Ok" => NewestFirst(storage, r.st, id, amount, epoch)
        IN  Let(unbond_tokens(storage, id[1], id[2], amount, epoch, debug), Taken)
\* An unbond has used up the newer bond of a pair and taken the rest from the
\* older one.
C32_Witness ==
    /\ last.op = "unbond_tokens" /\ last.err = "Ok"
    /\ \E id \in BondIds :
          LET withdraw_epoch == epoch + pipeline_len + unbonding_len
          IN  \E older, newer \in DOMAIN storage.bonds[id] :
                 /\ older < newer
                 /\ storage.bonds[id][newer] = 0
                 /\ {<<withdraw_epoch, older>>, <<withdraw_epoch, newer>>}
                        \subseteq DOMAIN storage.unbonds[id]
                 /\ storage.unbonds[id][<<withdraw_epoch, older>>] > 0
                 /\ storage.unbonds[id][<<withdraw_epoch, newer>>] > 0

\* ------------------------------------------------------------------ C33
\* The two sets, the positions and the addresses of the epochs a and b of the
\* storage s and t are the same.
SameSets(s, a, t, b) ==
    /\ s.consensus[a] = t.consensus[b]
    /\ s.below_cap[a] = t.below_cap[b]
    /\ s.positions[a] = t.positions[b]
    /\ s.addresses[a] = t.addresses[b]
CopiedAtNewEpoch ==
    LET e == epoch + 1
        source == e + pipeline_len - 1
        target == e + pipeline_len
    IN  (last'.op = "process_slashes" /\ epoch' = e) =>
            /\ SameSets(storage', target, storage', source)
            /\ SameSets(storage', source, storage, source)
ConsensusPopulatedAtNewEpoch ==
    (last'.op = "process_slashes" /\ epoch' = epoch + 1) =>
        \A e \in epoch'..(epoch' + pipeline_len) : storage'.consensus[e] # {}
CopiedAtGenesis ==
    last.op = "init_genesis" =>
        \A e \in 1..pipeline_len :
            /\ SameSets(storage, e, storage, e - 1)
            /\ storage.consensus[e] # {}
\* C33: when the epoch e begins, the consensus set, the below-capacity set,
\* the positions and the addresses of the epoch e + pipeline_len - 1 are
\* copied to the epoch e + pipeline_len: right after, the two epochs hold the
\* same, the epoch copied from is as it was, and the consensus set of every
\* epoch from e to e + pipeline_len is not empty; init_genesis does the same
\* for the epochs 1 .. pipeline_len.
C33_SetsCopied ==
    /\ []CopiedAtGenesis
    /\ [][CopiedAtNewEpoch /\ ConsensusPopulatedAtNewEpoch]_vars
\* The copy alone, with no word on the consensus sets being populated: it
\* holds.
SetsCopiedAlone ==
    []CopiedAtGenesis /\ [][CopiedAtNewEpoch]_vars

\* ------------------------------------------------------------------ C34
\* No position of a bucket that held a validator before the step holds another
\* validator after it.
PositionsNotReused(before, after) ==
    \A x \in before, y \in after :
        (x.stake = y.stake /\ x.pos = y.pos) => x.addr = y.addr
\* C34: within one epoch and one stake of a validator set a position is
\* assigned once: the position of a validator removed from a bucket is not
\* given to a validator inserted into the same bucket at the same epoch
\* afterwards, here by the same operation.
C34_PositionNeverReused ==
    [][\A e \in Epochs :
          /\ PositionsNotReused(storage.consensus[e], storage'.consensus[e])
          /\ PositionsNotReused(storage.below_cap[e], storage'.below_cap[e])]_vars

\* ------------------------------------------------------------------ C35
GenesisPost(g, s) ==
    LET listed == {g[i].address : i \in 1..Len(g)}
    IN  /\ Cardinality(s.consensus[0]) = Min2(Len(g), max_validator_slots)
        /\ \A i \in 1..Len(g) :
              LET v == g[i].address
                  in_consensus == EntriesOf(s.consensus[0], v)
                  in_below_cap == EntriesOf(s.below_cap[0], v)
              IN  /\ Cardinality(in_consensus) + Cardinality(in_below_cap) = 1
                  /\ \A x \in in_consensus \cup in_below_cap : x.stake = g[i].tokens
                  /\ validator_state_get(s, v, 0) =
                         (IF in_consensus # {} THEN "Consensus" ELSE "BelowCapacity")
        /\ AddressesIn(s.consensus[0] \cup s.below_cap[0]) \subseteq listed
        /\ \A x \in s.consensus[0], y \in s.below_cap[0] : x.stake >= y.stake
        /\ \A id \in BondIds : DOMAIN s.unbonds[id] = {}
        /\ \A v \in Validators :
              /\ s.slashes[v] = <<>>
              /\ \A e \in Epochs : s.enqueued[e][v] = <<>>
GenesisOf(g) ==
    init_genesis([EmptyStorage EXCEPT !.balance = GenesisBalances], g, 0)
\* C35: after init_genesis with a list of n validators, in any order, the
\* consensus set of the genesis epoch holds min(n, max_validator_slots)
\* validators; every validator of the list is in exactly one of the two sets,
\* under its genesis tokens, with the state of that set; no consensus
\* validator has fewer tokens than a below-capacity validator; there are no
\* unbonds and no slashes.
C35_GenesisSets ==
    last.op = "init_genesis" =>
        \A g \in GenesisLists : storage = GenesisOf(g) => GenesisPost(g, storage)
\* init_genesis with more validators than slots: the validator listed first
\* has been moved to the below-capacity set by one listed after it.
C35_Witness ==
    /\ last.op = "init_genesis"
    /\ \E g \in GenesisLists :
          /\ storage = GenesisOf(g)
          /\ Len(g) > max_validator_slots
          /\ g[1].address \in AddressesIn(storage.below_cap[0])
          /\ \E x \in storage.consensus[0] : x.pos > 0

\* ------------------------------------------------------------------ C36
\* C36: at every epoch, a validator is stored at most once in the consensus
\* and the below-capacity set together: not in both sets, and not under two
\* stakes or at two positions of one set.
C36_StoredAtMostOnce ==
    \A e \in Epochs, v \in Validators :
        Cardinality(EntriesOf(storage.consensus[e], v))
            + Cardinality(EntriesOf(storage.below_cap[e], v)) <= 1

\* ------------------------------------------------------------------ C37
\* C37: every validator stored in the consensus or the below-capacity set of
\* an epoch is stored under the stake its deltas give it at that epoch, and
\* the positions of that epoch hold the position at which it is stored.
C37_StoredUnderStake ==
    \A e \in Epochs :
        \A x \in storage.consensus[e] \cup storage.below_cap[e] :
            /\ x.stake = read_validator_stake(storage, x.addr, e)
            /\ x.pos = storage.positions[e][x.addr]

\* ------------------------------------------------------------------ C38
\* C38: a validator that is in state Consensus with a voting power above 0 at
\* e_c and is not in the consensus set of e_c + 1 gets a Deactivated update
\* from validator_set_update_tendermint(e_c).
C38_RemovedIsDeactivated ==
    LET Reported(r) ==
            r.err = "Ok" =>
                \A v \in Validators :
                    ( /\ validator_state_get(storage, v, epoch) = "Consensus"
                      /\ into_tm_voting_power(tm_votes_per_token,
                             read_validator_stake(storage, v, epoch)) > 0
                      /\ v \notin AddressesIn(storage.consensus[epoch + 1]) )
                    => \E u \in r.updates :
                          /\ u.kind = "Deactivated"
                          /\ u.consensus_key =
                                 validator_consensus_key_get(storage, v, epoch + 1)
    IN  Let(validator_set_update_tendermint(storage, epoch), Reported)

\* ------------------------------------------------------------------ C39
\* The slash x of a validator applies to the unbond with the key
\* k = (withdraw_epoch, start_epoch).
AppliesTo(x, k) == k[2] <= x.epoch /\ x.epoch < k[1] - unbonding_len
IsFinalized(s, v, x) ==
    \E j \in 1..Len(s.slashes[v]) :
        s.slashes[v][j].epoch = x.epoch /\ s.slashes[v][j].type = x.type
\* C39: a slash enqueued for the validator of an unbond, with an infraction
\* epoch from the start epoch of the unbond to before withdraw_epoch -
\* unbonding_len, is enqueued for an epoch that is not after the withdraw
\* epoch, and is finalized when the unbond can be withdrawn.
C39_FinalizedBeforeWithdraw ==
    \A id \in BondIds : \A k \in DOMAIN storage.unbonds[id] :
        \A processing_epoch \in Epochs :
            \A i \in 1..Len(storage.enqueued[processing_epoch][id[2]]) :
                LET x == storage.enqueued[processing_epoch][id[2]][i]
                IN  AppliesTo(x, k) =>
                        /\ processing_epoch <= k[1]
                        /\ ~not_yet_withdrawable(k[1], epoch) =>
                               /\ processing_epoch <= epoch
                               /\ IsFinalized(storage, id[2], x)
\* The withdraw epoch of an unbond begins with the processing of a slash that
\* applies to it: the unbond can be withdrawn and the slash is finalized.
C39_Witness ==
    /\ last.op = "process_slashes"
    /\ \E id \in BondIds : \E k \in DOMAIN storage.unbonds[id] :
          /\ k[1] = epoch
          /\ storage.unbonds[id][k] > 0
          /\ \E i \in 1..Len(storage.enqueued[epoch][id[2]]) :
                LET x == storage.enqueued[epoch][id[2]][i]
                IN  AppliesTo(x, k) /\ IsFinalized(storage, id[2], x)

\* ------------------------------------------------------------------ C40
\* C40: become_validator for an address that has a validator state at
\* e_c + pipeline_len fails with AlreadyValidator and changes nothing.
C40_AlreadyValidatorRejected ==
    [][\A address \in Validators, consensus_key \in NewKeys :
          ( /\ last'.op = "become_validator"
            /\ BecomeValidator(address, consensus_key)
            /\ validator_state_get(storage, address, epoch + pipeline_len)
                   # NoState )
          => (last'.err = "AlreadyValidator" /\ storage' = storage)]_vars

====
